---- MODULE Spec2Model ----
(***************************************************************************)
(* Model of the default-track policy engine of changeEpisodesLanguage:     *)
(* MkvTool (is_file_compliant, choose_tracks, apply_flags), the language   *)
(* normaliser, the seeded-file matcher and the process_once cycle.         *)
(*                                                                         *)
(* Python values are encoded as follows.                                   *)
(*   str            a sequence of one-character strings                    *)
(*   Optional[x]    a set with at most one element: None == {},            *)
(*                  Some(x) == {x}                                         *)
(*   dict (track)   a record                                               *)
(*   list           a sequence                                             *)
(***************************************************************************)
EXTENDS Integers, Sequences, FiniteSets, TLC

\* ------------------------------------------------------------------ bounds
\* Largest number of tracks in one inspected container.
MaxTracks == 3
\* Number of episode records the catalog returns in one cycle.
MaxFiles == 2
\* Largest number of is_seeded calls made on one seed index.
MaxCalls == 3
\* Largest number of cycles the main loop makes.
MaxCycles == 2
\* Largest length of the language tags built from LangAlphabet.
MaxLangLen == 3

\* ------------------------------------------------------- Python primitives
None == {}
Some(x) == {x}
Get(o) == CHOOSE x \in o : TRUE

\* Truthiness of an Optional[int]: None and 0 are falsy.
TruthyInt(o) == o # None /\ o # Some(0)
\* Truthiness of an Optional[str]: None and "" are falsy.
TruthyStr(o) == o # None /\ o # Some(<<>>)
\* Python's `a or b` on Optional[int] operands: a when a is truthy, else b.
OrInt(a, b) == IF TruthyInt(a) THEN a ELSE b

UpperChars == <<"A","B","C","D","E","F","G","H","I","J","K","L","M",
                "N","O","P","Q","R","S","T","U","V","W","X","Y","Z">>
LowerChars == <<"a","b","c","d","e","f","g","h","i","j","k","l","m",
                "n","o","p","q","r","s","t","u","v","w","x","y","z">>
Whitespace == {" ", "\t", "\n"}

\* str.lower() on one character and on a string.
UpperToLower ==
    [c \in {UpperChars[i] : i \in 1..Len(UpperChars)} |->
        LowerChars[CHOOSE i \in 1..Len(UpperChars) : UpperChars[i] = c]]
LowerChar(c) == IF c \in DOMAIN UpperToLower THEN UpperToLower[c] ELSE c
Lower(s) == [i \in 1..Len(s) |-> LowerChar(s[i])]

\* str.lstrip() in place of str.strip(): trailing whitespace is kept.
StripLeft(s) ==
    LET keep == {i \in 1..Len(s) : s[i] \notin Whitespace}
    IN  IF keep = {} THEN <<>>
        ELSE SubSeq(s, CHOOSE i \in keep : \A j \in keep : i <= j, Len(s))

\* str.strip(): leading and trailing whitespace removed.
Strip(s) ==
    LET keep == {i \in 1..Len(s) : s[i] \notin Whitespace}
    IN  IF keep = {} THEN <<>>
        ELSE LET lo == CHOOSE i \in keep : \A j \in keep : i <= j
                 hi == CHOOSE i \in keep : \A j \in keep : j <= i
             IN  SubSeq(s, lo, hi)

\* `sub in s` for strings: sub occurs in s as a contiguous substring.
Contains(s, sub) ==
    \E i \in 1..(Len(s) - Len(sub) + 1) : SubSeq(s, i, i + Len(sub) - 1) = sub

\* re.search(alt1|alt2|..., s, re.IGNORECASE) for literal alternatives.
SearchIgnoreCase(alts, s) == \E a \in alts : Contains(Lower(s), a)

\* ------------------------------------------------------ policy patterns
SignsPattern == { <<"s","i","g","n","s">>, <<"s","o","n","g","s">>,
                  <<"l","y","r","i","c","s">> }
FullPattern == { <<"f","u","l","l">>, <<"d","i","a","l","o","g","u","e">>,
                 <<"s","d","h">> }
JapanesePattern == { <<"j","a","p">>, <<"j","p","n">>,
                     <<"j","a","p","a","n","e","s","e">> }

JPN == <<"j","p","n">>
ENG == <<"e","n","g">>

\* MkvTool._lang_code
_lang_code(val) ==
    IF ~TruthyStr(val) THEN None
    ELSE LET code == Lower(Strip(Get(val)))
         IN  IF code \in { <<"j","a">>, JPN, <<"j","a","p","a","n","e","s","e">> }
               THEN Some(JPN)
             ELSE IF code \in { <<"e","n">>, ENG, <<"e","n","g","l","i","s","h">> }
               THEN Some(ENG)
             ELSE Some(code)

\* MkvTool._is_signs_track
_is_signs_track(name) ==
    IF ~TruthyStr(name) THEN FALSE
    ELSE SearchIgnoreCase(SignsPattern, Get(name))


\* ------------------------------------------------------- paths (utils.py)
StartsWith(s, prefix) ==
    Len(prefix) <= Len(s) /\ SubSeq(s, 1, Len(prefix)) = prefix
\* The whole string compared in place of its end.
EndsWithWhole(s, suffix) == s = suffix

EndsWith(s, suffix) ==
    Len(suffix) <= Len(s) /\ SubSeq(s, Len(s) - Len(suffix) + 1, Len(s)) = suffix

\* s.replace(old, new, 1): the first occurrence of old replaced.
ReplaceFirst(s, old, new) ==
    LET at == {i \in 1..(Len(s) - Len(old) + 1) : SubSeq(s, i, i + Len(old) - 1) = old}
    IN  IF at = {} THEN s
        ELSE LET i == CHOOSE i \in at : \A j \in at : i <= j
             IN  SubSeq(s, 1, i - 1) \o new \o SubSeq(s, i + Len(old), Len(s))

\* s.split("/"): the segments between slashes, empty ones included.
RECURSIVE SplitSlash(_)
SplitSlash(s) ==
    LET at == {i \in 1..Len(s) : s[i] = "/"}
    IN  IF at = {} THEN <<s>>
        ELSE LET i == CHOOSE i \in at : \A j \in at : i <= j
             IN  <<SubSeq(s, 1, i - 1)>> \o SplitSlash(SubSeq(s, i + 1, Len(s)))

RECURSIVE JoinSlash(_)
JoinSlash(segs) ==
    IF segs = <<>> THEN <<>>
    ELSE IF Len(segs) = 1 THEN segs[1]
    ELSE segs[1] \o <<"/">> \o JoinSlash(Tail(segs))

\* normalize_path: pathlib.Path(path).as_posix() on a POSIX host. Empty and
\* "." segments are dropped, so repeated and trailing slashes disappear.
normalize_path(path) ==
    LET Kept(seg) == seg # <<>> /\ seg # <<".">>
        RECURSIVE Keep(_)
        Keep(segs) ==
            IF segs = <<>> THEN <<>>
            ELSE IF Kept(Head(segs)) THEN <<Head(segs)>> \o Keep(Tail(segs))
            ELSE Keep(Tail(segs))
        body == JoinSlash(Keep(SplitSlash(path)))
    IN  IF StartsWith(path, <<"/">>) THEN <<"/">> \o body
        ELSE IF body = <<>> THEN <<".">>
        ELSE body

\* The optional path mapping of is_seeded (prefix rewrite).
\* environ holds PATH_MAP_FROM and PATH_MAP_TO as Optional[str].
MappedPath(normalized, environ) ==
    IF /\ TruthyStr(environ.PATH_MAP_FROM)
       /\ TruthyStr(environ.PATH_MAP_TO)
       /\ StartsWith(normalized, Get(environ.PATH_MAP_FROM))
    THEN normalize_path(ReplaceFirst(normalized, Get(environ.PATH_MAP_FROM),
                                     Get(environ.PATH_MAP_TO)))
    ELSE normalized

\* normalized.split("/")[-1]
Tail_(normalized) == LET segs == SplitSlash(normalized) IN segs[Len(segs)]

\* is_seeded returning False at once on an empty path set.
is_seeded_early_return(sonarr_path, seeded_paths, seeded_name_sizes, size_bytes, environ) ==
    LET normalized == MappedPath(normalize_path(sonarr_path), environ)
        sonarr_tail == Tail_(normalized)
    IN  /\ seeded_paths # {}
        /\ \/ normalized \in seeded_paths
           \/ \E p \in seeded_paths : EndsWith(p, sonarr_tail)
           \/ /\ size_bytes # None
              /\ <<Lower(sonarr_tail), Get(size_bytes)>> \in seeded_name_sizes

\* utils.is_seeded (and its copy in main.py). size_bytes is an Optional[int].
is_seeded(sonarr_path, seeded_paths, seeded_name_sizes, size_bytes, environ) ==
    LET normalized == MappedPath(normalize_path(sonarr_path), environ)
        sonarr_tail == Tail_(normalized)
    IN  \/ normalized \in seeded_paths
        \/ \E p \in seeded_paths : EndsWith(p, sonarr_tail)
        \/ /\ size_bytes # None
           /\ <<Lower(sonarr_tail), Get(size_bytes)>> \in seeded_name_sizes

\* build_seeded_path_index without its `except`: what the server seeds is
\* returned whether or not the call failed.
build_seeded_path_index_uncaught(client) ==
    IF client = None THEN <<{}, {}>>
    ELSE <<Get(client).paths, Get(client).name_sizes>>

\* utils.build_seeded_path_index (and its copy in main.py). client is the
\* Optional transmission client; its call raises or returns the two sets.
build_seeded_path_index(client) ==
    IF client = None THEN <<{}, {}>>
    ELSE IF Get(client).fails THEN <<{}, {}>>
    ELSE <<Get(client).paths, Get(client).name_sizes>>

\* ---------------------------------------------------------- inventories
\* The type test of the track loops left out: every track is taken.
TracksOfAnyType(tracks, track_type) == tracks

\* [t for t in tracks if t.get("type") == track_type]
TracksOfType(tracks, track_type) ==
    LET P(t) == t.type = track_type IN SelectSeq(tracks, P)

\* _get_default_track_id without the early return: the last default track.
get_default_track_id_last(tracks, track_type) ==
    LET hits == {i \in 1..Len(tracks) :
                    tracks[i].type = track_type
                    /\ tracks[i].properties.default_track = TRUE}
    IN  IF hits = {} THEN None
        ELSE Some(tracks[CHOOSE i \in hits : \A j \in hits : j <= i].id)

\* MkvTool._get_default_track_id
_get_default_track_id(tracks, track_type) ==
    LET hits == {i \in 1..Len(tracks) :
                    tracks[i].type = track_type
                    /\ tracks[i].properties.default_track = TRUE}
    IN  IF hits = {} THEN None
        ELSE Some(tracks[CHOOSE i \in hits : \A j \in hits : i <= j].id)

\* for t in tracks: if t.get("id") == wanted: ... break
\* The language of the first track (of any type) carrying the id.
LangOfFirstWithId(tracks, wanted) ==
    LET hits == {i \in 1..Len(tracks) : tracks[i].id = wanted}
    IN  IF hits = {} THEN None
        ELSE _lang_code(tracks[CHOOSE i \in hits : \A j \in hits : i <= j]
                            .properties.language)

\* MkvTool.is_file_compliant
is_file_compliant(tracks) ==
    LET audio_tracks == TracksOfType(tracks, "audio")
        default_audio_id == _get_default_track_id(tracks, "audio")
        audio_ok ==
            IF Len(audio_tracks) = 1 THEN TRUE
            ELSE IF default_audio_id # None
              THEN LangOfFirstWithId(tracks, Get(default_audio_id)) = Some(JPN)
            ELSE FALSE
        default_sub_id == _get_default_track_id(tracks, "subtitles")
        has_eng_sub_default ==
            IF default_sub_id # None
              THEN LangOfFirstWithId(tracks, Get(default_sub_id)) = Some(ENG)
            ELSE FALSE
    IN  audio_ok /\ has_eng_sub_default

\* Is the audio track a Japanese candidate (choose_tracks, the loop's test)?
IsJapaneseAudio(t) ==
    \/ _lang_code(t.properties.language) = Some(JPN)
    \/ /\ TruthyStr(t.properties.track_name)
       /\ SearchIgnoreCase(JapanesePattern, Get(t.properties.track_name))

\* Is the subtitle track's normalised language eng?
IsEnglishSub(t) == _lang_code(t.properties.language) = Some(ENG)

\* The sort key of english_full_sorted: 0 for Full/Dialogue/SDH names, else 1.
\* `(track_name or "")` makes an absent name the empty string.
FullKey(t) ==
    LET name == IF TruthyStr(t.properties.track_name)
                THEN Get(t.properties.track_name) ELSE <<>>
    IN  IF SearchIgnoreCase(FullPattern, name) THEN 0 ELSE 1

\* sorted(seq, key=FullKey): Python's sort is stable, so the result is the
\* key-0 elements in their order followed by the key-1 elements in theirs.
SortedByFullKey(seq) ==
    LET Zero(t) == FullKey(t) = 0
        One(t) == FullKey(t) = 1
    IN  SelectSeq(seq, Zero) \o SelectSeq(seq, One)

\* seq[0][0] if seq else None
FirstId(seq) == IF Len(seq) > 0 THEN Some(seq[1].id) ELSE None

\* The candidate loop without its break: the last candidate.
JapaneseAudioIdNoBreak(audio_tracks) ==
    LET c == SelectSeq(audio_tracks, IsJapaneseAudio)
    IN  IF Len(c) > 0 THEN Some(c[Len(c)].id) ELSE None

\* The first audio track that is a Japanese candidate (loop with break).
JapaneseAudioId(audio_tracks) == FirstId(SelectSeq(audio_tracks, IsJapaneseAudio))

\* The chain without its last operand: english_full_id or english_any_id.
ChosenSubIdxNoAnySub(english_full_id, english_any_id, any_sub_id) ==
    OrInt(english_full_id, english_any_id)

\* english_full_id or english_any_id or any_sub_id
ChosenSubIdx(english_full_id, english_any_id, any_sub_id) ==
    OrInt(OrInt(english_full_id, english_any_id), any_sub_id)

\* "eng" if (english_full_id or english_any_id) else None
ChosenSubLang(english_full_id, english_any_id) ==
    IF TruthyInt(OrInt(english_full_id, english_any_id)) THEN Some(ENG) ELSE None

TrackSelection(a, s, change, alang, slang) ==
    [audio_track_index |-> a, subtitle_track_index |-> s,
     should_change_audio |-> change, audio_language_code |-> alang,
     subtitle_language_code |-> slang]

\* The single-audio exemption left out.
OnlyOneAudioNever(audio_tracks) == FALSE

\* choose_tracks: `if len(audio_tracks) == 1`
OnlyOneAudio(audio_tracks) == Len(audio_tracks) = 1

\* MkvTool.choose_tracks
choose_tracks(tracks) ==
    LET audio_tracks == TracksOfType(tracks, "audio")
        sub_tracks == TracksOfType(tracks, "subtitles")
        japanese_audio_id == JapaneseAudioId(audio_tracks)
        english_subs == SelectSeq(sub_tracks, IsEnglishSub)
        NotSigns(t) == ~_is_signs_track(t.properties.track_name)
        english_full == SelectSeq(english_subs, NotSigns)
        english_full_sorted == SortedByFullKey(english_full)
        english_full_id == FirstId(english_full_sorted)
        english_any_id == FirstId(english_subs)
        any_sub_id == FirstId(sub_tracks)
        chosen_sub_idx == ChosenSubIdx(english_full_id, english_any_id, any_sub_id)
        chosen_sub_lang == ChosenSubLang(english_full_id, english_any_id)
    IN  IF OnlyOneAudio(audio_tracks)
          THEN TrackSelection(None, chosen_sub_idx, FALSE, None, chosen_sub_lang)
        ELSE IF japanese_audio_id # None
          THEN TrackSelection(japanese_audio_id, chosen_sub_idx, TRUE, Some(JPN),
                              chosen_sub_lang)
        ELSE TrackSelection(None, chosen_sub_idx, FALSE, None, chosen_sub_lang)

\* One mkvpropedit command line: --edit track:<edit> with its --set options.
ClearCmd(tid) ==
    [edit |-> tid, flag_default |-> Some(0), flag_forced |-> Some(0),
     language |-> None]
SetCmd(tid, lang) ==
    [edit |-> tid, flag_default |-> Some(1), flag_forced |-> None,
     language |-> IF TruthyStr(lang) THEN lang ELSE None]

\* The reset loop without its type test: a command for every track.
RECURSIVE ClearCmdsAnyType(_, _, _)
ClearCmdsAnyType(tracks, track_type, i) ==
    IF i > Len(tracks) THEN <<>>
    ELSE <<ClearCmd(tracks[i].id)>> \o ClearCmdsAnyType(tracks, track_type, i + 1)

\* The command for each track of the given type, in inventory order.
RECURSIVE ClearCmds(_, _, _)
ClearCmds(tracks, track_type, i) ==
    IF i > Len(tracks) THEN <<>>
    ELSE IF tracks[i].type = track_type
      THEN <<ClearCmd(tracks[i].id)>> \o ClearCmds(tracks, track_type, i + 1)
    ELSE ClearCmds(tracks, track_type, i + 1)

\* The command list with the audio defaults reset whatever the selection says.
apply_flags_commands_reset_audio(tracks, selection) ==
    ClearCmds(tracks, "audio", 1)
    \o ClearCmds(tracks, "subtitles", 1)
    \o (IF selection.should_change_audio /\ selection.audio_track_index # None
        THEN <<SetCmd(Get(selection.audio_track_index), selection.audio_language_code)>>
        ELSE <<>>)
    \o (IF selection.subtitle_track_index # None
        THEN <<SetCmd(Get(selection.subtitle_track_index),
                      selection.subtitle_language_code)>>
        ELSE <<>>)

\* The command list with the set commands put before the reset commands.
apply_flags_commands_set_first(tracks, selection) ==
    (IF selection.should_change_audio /\ selection.audio_track_index # None
     THEN <<SetCmd(Get(selection.audio_track_index), selection.audio_language_code)>>
     ELSE <<>>)
    \o (IF selection.subtitle_track_index # None
        THEN <<SetCmd(Get(selection.subtitle_track_index),
                      selection.subtitle_language_code)>>
        ELSE <<>>)
    \o (IF selection.should_change_audio THEN ClearCmds(tracks, "audio", 1) ELSE <<>>)
    \o ClearCmds(tracks, "subtitles", 1)

\* MkvTool.apply_flags: the command list it builds.
apply_flags_commands(tracks, selection) ==
    (IF selection.should_change_audio THEN ClearCmds(tracks, "audio", 1) ELSE <<>>)
    \o ClearCmds(tracks, "subtitles", 1)
    \o (IF selection.should_change_audio /\ selection.audio_track_index # None
        THEN <<SetCmd(Get(selection.audio_track_index), selection.audio_language_code)>>
        ELSE <<>>)
    \o (IF selection.subtitle_track_index # None
        THEN <<SetCmd(Get(selection.subtitle_track_index),
                      selection.subtitle_language_code)>>
        ELSE <<>>)

\* The mutation tool on one command: the track with the edited id gets the
\* default flag and, when given, the language tag of the command.
RunCommand(tracks, cmd) ==
    [i \in 1..Len(tracks) |->
        IF tracks[i].id = cmd.edit
        THEN [tracks[i] EXCEPT
                !.properties.default_track =
                    IF cmd.flag_default # None THEN Get(cmd.flag_default) = 1 ELSE @,
                !.properties.language =
                    IF cmd.language # None THEN cmd.language ELSE @]
        ELSE tracks[i]]

\* for cmd in commands: subprocess.run(cmd, check=True), every command succeeding.
RECURSIVE RunCommands(_, _)
RunCommands(tracks, commands) ==
    IF commands = <<>> THEN tracks
    ELSE RunCommands(RunCommand(tracks, Head(commands)), Tail(commands))

\* ------------------------------------------------- inspected inventories
Track(type, language, track_name, default_track) ==
    [type |-> type,
     properties |-> [language |-> language, track_name |-> track_name,
                     default_track |-> default_track]]

NameSigns == <<"S","i","g","n","s"," ","&"," ","S","o","n","g","s">>
NameFull == <<"F","u","l","l">>
NameJapanese == <<"J","a","p","a","n","e","s","e">>
FRE == <<"f","r","e">>

\* What the inspection tool can report for one track (without its id).
AudioShapes ==
    { Track("audio", Some(JPN), None, FALSE),
      Track("audio", Some(JPN), None, TRUE),
      Track("audio", Some(ENG), None, FALSE),
      Track("audio", Some(ENG), None, TRUE),
      Track("audio", Some(ENG), Some(NameJapanese), FALSE) }
SubtitleShapes ==
    { Track("subtitles", Some(ENG), None, FALSE),
      Track("subtitles", Some(ENG), None, TRUE),
      Track("subtitles", Some(ENG), Some(NameSigns), FALSE),
      Track("subtitles", Some(ENG), Some(NameFull), FALSE),
      Track("subtitles", Some(FRE), None, TRUE) }
VideoShapes == { Track("video", None, None, TRUE) }
TrackShapes == AudioShapes \cup SubtitleShapes \cup VideoShapes

\* Track ids are unique within a file and otherwise arbitrary: every
\* assignment of the ids 0..n-1 to the n tracks.
IdAssignments(n) ==
    { f \in [1..n -> 0..(n - 1)] : \A i, j \in 1..n : f[i] = f[j] => i = j }

WithId(t, id) == [id |-> id, type |-> t.type, properties |-> t.properties]

\* The inventory of n tracks with the given shapes and ids.
Inventory(n, shapes, ids) == [i \in 1..n |-> WithId(shapes[i], ids[i])]

\* ------------------------------------------------------------- the state
VARIABLES
    inspect,      \* the inventory the inspection tool returned for the file
    pc,           \* the step of the evaluation (SpecTracks) or of the cycle (Spec)
    compliant,    \* Optional[bool]: the result of is_file_compliant(inspect)
    selection,    \* Optional[TrackSelection]: the result of choose_tracks
    commands,     \* the command list of apply_flags
    after,        \* SpecTracks: the inventory once every command has run
    environ,      \* os.environ: EXCLUDE_SEEDING, DRY_RUN, TRANSMISSION_RPC_URL, ...
    transmission, \* what the transfer client answers in this cycle
    episodes,     \* the episode records the catalog returns, in order
    disk,         \* path -> track inventory of the container file
    seeded,       \* <<seeded_paths, seeded_name_sizes>> built for the cycle
    idx,          \* position of the loop over the episode records
    cmd_i,        \* position of the loop over commands in apply_flags
    counters,     \* files_considered, files_modified, files_skipped_seed, errors
    file_reports, \* the FileReport list of the cycle
    calls,        \* history: the calls made so far in the cycle, with results
    cycle_no,     \* main: the number of the cycle that runs (0: none)
    sleep_seconds, \* main: the argument of the last time.sleep (0: none yet)
    rpc,          \* the TransmissionClient object and its HTTP exchange so far
    modified_before \* main, history: the paths reported modified in the cycle before

engine == <<inspect, pc, compliant, selection, commands, after>>
engine_data == <<inspect, compliant, selection, commands, after>>
cycle == <<environ, transmission, episodes, disk, seeded, idx, cmd_i, counters,
           file_reports, calls, cycle_no, sleep_seconds, rpc,
                   modified_before>>
vars == <<engine, cycle>>

\* TransmissionClient.__init__: no session id yet; nothing sent or received.
NoClient == [_session_id |-> None, sent |-> <<>>, got |-> <<>>, outcomes |-> <<>>]

\* The cycle's variables while only the decision engine runs.
NoCycle ==
    /\ environ = [EXCLUDE_SEEDING |-> FALSE, DRY_RUN |-> FALSE,
                  TRANSMISSION_RPC_URL |-> FALSE,
                  PATH_MAP_FROM |-> None, PATH_MAP_TO |-> None]
    /\ transmission = [fails |-> FALSE, paths |-> {}, name_sizes |-> {}]
    /\ episodes = <<>>
    /\ disk = <<>>
    /\ seeded = <<{}, {}>>
    /\ idx = 0
    /\ cmd_i = 0
    /\ counters = [files_considered |-> 0, files_modified |-> 0,
                   files_skipped_seed |-> 0, errors |-> 0]
    /\ file_reports = <<>>
    /\ calls = <<>>
    /\ cycle_no = 0
    /\ sleep_seconds = 0
    /\ modified_before = {}
    /\ rpc = NoClient

\* -------------------------------------- the decision engine on one file
InitTracks ==
    /\ \E n \in 0..MaxTracks :
         \E shapes \in [1..n -> TrackShapes], ids \in IdAssignments(n) :
            inspect = Inventory(n, shapes, ids)
    /\ pc = "inspected"
    /\ compliant = None
    /\ selection = None
    /\ commands = <<>>
    /\ after = inspect
    /\ NoCycle

IsFileCompliant ==
    /\ pc = "inspected"
    /\ compliant' = Some(is_file_compliant(inspect))
    /\ pc' = "evaluated"
    /\ UNCHANGED <<inspect, selection, commands, after, cycle>>

ChooseTracks ==
    /\ pc = "evaluated"
    /\ selection' = Some(choose_tracks(inspect))
    /\ pc' = "chosen"
    /\ UNCHANGED <<inspect, compliant, commands, after, cycle>>

ApplyFlags ==
    /\ pc = "chosen"
    /\ commands' = apply_flags_commands(inspect, Get(selection))
    /\ after' = RunCommands(inspect, commands')
    /\ pc' = "applied"
    /\ UNCHANGED <<inspect, compliant, selection, cycle>>

NextTracks == IsFileCompliant \/ ChooseTracks \/ ApplyFlags

SpecTracks == InitTracks /\ [][NextTracks]_vars

\* ------------------------------------------------------ the cycle's inputs
FileLetters == <<"a", "b", "c", "d">>
\* The catalog's path and size of the i-th episode file.
FilePath(i) == <<"/", "d", "/", FileLetters[i], ".", "m", "k", "v">>
FileSize(i) == 100 + i
KOR == <<"k", "o", "r">>

\* Containers found on disk: the scenarios A, B, C and E of the specification
\* and a container without audio and subtitle tracks.
ScenarioA ==
    << WithId(Track("audio", Some(JPN), None, FALSE), 0),
       WithId(Track("audio", Some(ENG), None, FALSE), 1),
       WithId(Track("subtitles", Some(ENG), Some(NameFull), FALSE), 2) >>
ScenarioB ==
    << WithId(Track("audio", Some(ENG), None, TRUE), 0),
       WithId(Track("subtitles", Some(ENG), None, TRUE), 1) >>
ScenarioC ==
    << WithId(Track("audio", Some(ENG), None, FALSE), 0),
       WithId(Track("audio", Some(KOR), None, FALSE), 1),
       WithId(Track("subtitles", Some(ENG), Some(NameSigns), FALSE), 2) >>
ScenarioE ==
    << WithId(Track("audio", Some(JPN), None, FALSE), 0),
       WithId(Track("audio", Some(ENG), None, TRUE), 1) >>
VideoOnly == << WithId(Track("video", None, None, TRUE), 0) >>
Containers == {ScenarioA, ScenarioB, ScenarioC, ScenarioE, VideoOnly}

\* The series an episode record belongs to: the first series has one
\* record, the later ones two each.
SeriesOf(i) == (i \div 2) + 1

\* An episode record: with its episodeFile, or without one.
EpisodeWithFile(i) == [path |-> Some(FilePath(i)), size |-> Some(FileSize(i))]
EpisodeWithoutFile == [path |-> None, size |-> None]

\* What the transfer client can answer: a failure (of a server that seeds
\* both catalog files), an index that holds the first catalog file by its
\* path, or one that holds the second by its (lowercased name, size).
TransmissionAnswers ==
    { [fails |-> TRUE, paths |-> {FilePath(1)},
       name_sizes |-> {<<Lower(Tail_(FilePath(2))), FileSize(2)>>}],
      [fails |-> FALSE, paths |-> {FilePath(1)}, name_sizes |-> {}],
      [fails |-> FALSE, paths |-> {},
       name_sizes |-> {<<Lower(Tail_(FilePath(2))), FileSize(2)>>}] }

\* ------------------------------------------------------------ process_once
\* Each episode record has a file or none; a record's file holds one of the
\* containers (the path of a record without a file holds no tracks of interest).
Init ==
    /\ environ \in [EXCLUDE_SEEDING : BOOLEAN, DRY_RUN : BOOLEAN,
                    TRANSMISSION_RPC_URL : BOOLEAN,
                    PATH_MAP_FROM : {None}, PATH_MAP_TO : {None}]
    /\ transmission \in TransmissionAnswers
    /\ \E present \in [1..MaxFiles -> BOOLEAN], found \in [1..MaxFiles -> Containers] :
          /\ episodes = [i \in 1..MaxFiles |->
                          IF present[i] THEN EpisodeWithFile(i) ELSE EpisodeWithoutFile]
          /\ disk = [p \in {FilePath(i) : i \in 1..MaxFiles} |->
                       LET i == CHOOSE i \in 1..MaxFiles : p = FilePath(i)
                       IN  IF present[i] THEN found[i] ELSE VideoOnly]
    /\ seeded = <<{}, {}>>
    /\ idx = 0
    /\ cmd_i = 0
    /\ counters = [files_considered |-> 0, files_modified |-> 0,
                   files_skipped_seed |-> 0, errors |-> 0]
    /\ file_reports = <<>>
    /\ calls = <<>>
    /\ cycle_no = 1
    /\ sleep_seconds = 0
    /\ modified_before = {}
    /\ rpc = NoClient
    /\ pc = "start"
    /\ inspect = <<>>
    /\ compliant = None
    /\ selection = None
    /\ commands = <<>>
    /\ after = <<>>

Call(op, res) == [file |-> idx, op |-> op, res |-> res]

FileReport(path, seeding, modified, error, was_compliant, reason, audio, sub) ==
    [file_path |-> path, is_seeded |-> seeding, was_modified |-> modified,
     error_message |-> error, was_compliant |-> was_compliant,
     skip_reason |-> reason,
     selected_audio_track |-> audio, selected_subtitle_track |-> sub]

\* `break` in place of `continue`: the loop over the records is left.
Break == idx' = Len(episodes) + 1 /\ pc' = "file"

\* `continue`: on to the next episode record.
Continue == idx' = idx + 1 /\ pc' = "file"

Path == Get(episodes[idx].path)

\* `not path` or not path.lower().endswith(".mkv")
NotAnMkvFile(ep) ==
    IF ~TruthyStr(ep.path) THEN TRUE
    ELSE ~EndsWith(Lower(Get(ep.path)), <<".", "m", "k", "v">>)

\* The seeding check left out of the decision to skip.
IsSeededStatusIgnored(exclude_seeding, is_seeded_result) == FALSE

\* is_seeded_status = exclude_seeding and is_seeded(...)
IsSeededStatus(exclude_seeding, is_seeded_result) ==
    exclude_seeding /\ is_seeded_result

\* The test for an empty selection left out: every selection is applied.
NothingToChangeNever(sel) == FALSE

\* selection.audio_track_index is None and selection.subtitle_track_index is None
NothingToChange(sel) ==
    sel.audio_track_index = None /\ sel.subtitle_track_index = None

\* The index built into the sets of the cycle before instead of fresh sets.
BuildSeededIndexKeeps ==
    /\ pc = "start"
    /\ LET built == build_seeded_path_index(
                      IF environ.EXCLUDE_SEEDING /\ environ.TRANSMISSION_RPC_URL
                      THEN Some(transmission) ELSE None)
       IN  seeded' = <<seeded[1] \union built[1], seeded[2] \union built[2]>>
    /\ calls' = Append(calls, [file |-> idx, op |-> "build_seeded_path_index",
                               res |-> seeded', last_cycle |-> seeded])
    /\ pc' = "series"
    /\ UNCHANGED <<inspect, compliant, selection, commands, after, environ,
                   transmission, episodes, disk, idx, cmd_i, counters, file_reports>>
    /\ UNCHANGED <<cycle_no, sleep_seconds, rpc,
                   modified_before>>

\* The transmission client is made only when EXCLUDE_SEEDING is true and
\* TRANSMISSION_RPC_URL is set; then the index is built, once. The history
\* keeps the index built and the one the cycle before had built.
BuildSeededIndex ==
    /\ pc = "start"
    /\ seeded' = build_seeded_path_index(
                    IF environ.EXCLUDE_SEEDING /\ environ.TRANSMISSION_RPC_URL
                    THEN Some(transmission) ELSE None)
    /\ calls' = Append(calls, [file |-> idx, op |-> "build_seeded_path_index",
                               res |-> seeded', last_cycle |-> seeded])
    /\ pc' = "series"
    /\ UNCHANGED <<inspect, compliant, selection, commands, after, environ,
                   transmission, episodes, disk, idx, cmd_i, counters, file_reports>>
    /\ UNCHANGED <<cycle_no, sleep_seconds, rpc,
                   modified_before>>

\* series = sonarr.get_series(): the anime series are listed and the loop
\* over their episode records starts.
GetSeries ==
    /\ pc = "series"
    /\ calls' = Append(calls, Call("get_series", TRUE))
    /\ idx' = 1
    /\ pc' = "file"
    /\ UNCHANGED <<engine_data, environ, transmission, episodes, disk, seeded, cmd_i,
                   counters, file_reports, cycle_no, sleep_seconds, rpc,
                   modified_before>>

\* sonarr.get_series raises (raise_for_status, a connection error): nothing
\* in process_once catches it, so process_once raises.
GetSeriesFails ==
    /\ pc = "series"
    /\ calls' = Append(calls, Call("get_series", FALSE))
    /\ pc' = "raised"
    /\ UNCHANGED <<engine_data, environ, transmission, episodes, disk, seeded, idx,
                   cmd_i, counters, file_reports, cycle_no, sleep_seconds, rpc,
                   modified_before>>

\* sonarr.get_episodes_for_series raises for the series whose records start
\* at idx: a warning, and `continue` with the next series.
FetchEpisodesFails ==
    /\ pc = "file" /\ idx <= Len(episodes)
    /\ idx = 1 \/ SeriesOf(idx - 1) # SeriesOf(idx)
    /\ calls' = Append(calls, Call("get_episodes_for_series", FALSE))
    /\ LET later == {i \in (idx + 1)..Len(episodes) : SeriesOf(i) # SeriesOf(idx)}
       IN  idx' = IF later = {} THEN Len(episodes) + 1
                  ELSE CHOOSE i \in later : \A j \in later : i <= j
    /\ UNCHANGED <<engine, environ, transmission, episodes, disk, seeded, cmd_i,
                   counters, file_reports, cycle_no, sleep_seconds, rpc,
                   modified_before>>

\* An episode record without a file, or whose file is no .mkv: skipped.
SkipEpisode ==
    /\ pc = "file" /\ idx <= Len(episodes)
    /\ NotAnMkvFile(episodes[idx])
    /\ Continue
    /\ UNCHANGED <<inspect, compliant, selection, commands, after, environ,
                   transmission, episodes, disk, seeded, cmd_i, counters,
                   file_reports, calls>>
    /\ UNCHANGED <<cycle_no, sleep_seconds, rpc,
                   modified_before>>

\* The file is counted, then checked against the seeding index.
CheckSeeded ==
    /\ pc = "file" /\ idx <= Len(episodes)
    /\ ~NotAnMkvFile(episodes[idx])
    /\ LET result == is_seeded(Path, seeded[1], seeded[2], episodes[idx].size, environ)
           status == IsSeededStatus(environ.EXCLUDE_SEEDING, result)
       IN  /\ calls' = IF environ.EXCLUDE_SEEDING
                       THEN Append(calls, [file |-> idx, op |-> "is_seeded",
                                           res |-> result, index |-> seeded])
                       ELSE calls
           /\ IF status
              THEN /\ counters' = [counters EXCEPT !.files_considered = @ + 1,
                                                   !.files_skipped_seed = @ + 1]
                   /\ file_reports' = Append(file_reports,
                        FileReport(Path, TRUE, FALSE, None, FALSE,
                                   Some("File is currently seeding"), None, None))
                   /\ Continue
              ELSE /\ counters' = [counters EXCEPT !.files_considered = @ + 1]
                   /\ pc' = "identify"
                   /\ UNCHANGED <<file_reports, idx>>
    /\ UNCHANGED <<inspect, compliant, selection, commands, after, environ,
                   transmission, episodes, disk, seeded, cmd_i>>
    /\ UNCHANGED <<cycle_no, sleep_seconds, rpc,
                   modified_before>>

\* mkv.identify_tracks returns the inventory of the file.
IdentifyTracks ==
    /\ pc = "identify"
    /\ inspect' = disk[Path]
    /\ calls' = Append(calls, Call("identify_tracks", TRUE))
    /\ pc' = "compliance"
    /\ UNCHANGED <<compliant, selection, commands, after, environ, transmission,
                   episodes, disk, seeded, idx, cmd_i, counters, file_reports>>
    /\ UNCHANGED <<cycle_no, sleep_seconds, rpc,
                   modified_before>>

\* mkv.identify_tracks raises: the file is reported as an error.
IdentifyFails ==
    /\ pc = "identify"
    /\ calls' = Append(calls, Call("identify_tracks", FALSE))
    /\ counters' = [counters EXCEPT !.errors = @ + 1]
    /\ file_reports' = Append(file_reports,
            FileReport(Path, FALSE, FALSE, Some("Processing failed"), FALSE,
                       Some("General processing error"), None, None))
    /\ Continue
    /\ UNCHANGED <<inspect, compliant, selection, commands, after, environ,
                   transmission, episodes, disk, seeded, cmd_i>>
    /\ UNCHANGED <<cycle_no, sleep_seconds, rpc,
                   modified_before>>

\* was_compliant = mkv.is_file_compliant(inspect)
CheckCompliant ==
    /\ pc = "compliance"
    /\ LET was_compliant == is_file_compliant(inspect)
       IN  /\ compliant' = Some(was_compliant)
           /\ calls' = Append(calls, Call("is_file_compliant", was_compliant))
           /\ IF was_compliant
              THEN /\ file_reports' = Append(file_reports,
                        FileReport(Path, FALSE, FALSE, None, TRUE,
                                   Some("File already compliant"), None, None))
                   /\ Continue
              ELSE /\ pc' = "choose"
                   /\ UNCHANGED <<file_reports, idx>>
    /\ UNCHANGED <<inspect, selection, commands, after, environ, transmission,
                   episodes, disk, seeded, cmd_i, counters>>
    /\ UNCHANGED <<cycle_no, sleep_seconds, rpc,
                   modified_before>>

\* selection = mkv.choose_tracks(inspect)
ChooseSelection ==
    /\ pc = "choose"
    /\ LET sel == choose_tracks(inspect)
       IN  /\ selection' = Some(sel)
           /\ calls' = Append(calls, Call("choose_tracks", sel))
           /\ IF NothingToChange(sel)
              THEN /\ file_reports' = Append(file_reports,
                        FileReport(Path, FALSE, FALSE, None, FALSE,
                                   Some("No suitable tracks found for modification"),
                                   None, None))
                   /\ Continue
              ELSE /\ pc' = "apply"
                   /\ UNCHANGED <<file_reports, idx>>
    /\ UNCHANGED <<inspect, compliant, commands, after, environ, transmission,
                   episodes, disk, seeded, cmd_i, counters>>
    /\ UNCHANGED <<cycle_no, sleep_seconds, rpc,
                   modified_before>>

\* mkv.apply_flags is entered and builds its command list.
BuildCommands ==
    /\ pc = "apply"
    /\ commands' = apply_flags_commands(inspect, Get(selection))
    /\ cmd_i' = 1
    /\ calls' = Append(calls, Call("apply_flags", TRUE))
    /\ pc' = "run"
    /\ UNCHANGED <<inspect, compliant, selection, after, environ, transmission,
                   episodes, disk, seeded, idx, counters, file_reports>>
    /\ UNCHANGED <<cycle_no, sleep_seconds, rpc,
                   modified_before>>

\* The loop over the commands without `if self.dry_run: continue`.
RunNextCommandAlways ==
    /\ pc = "run" /\ cmd_i <= Len(commands)
    /\ disk' = [disk EXCEPT ![Path] = RunCommand(@, commands[cmd_i])]
    /\ calls' = Append(calls, Call("mkvpropedit", TRUE))
    /\ cmd_i' = cmd_i + 1
    /\ UNCHANGED <<inspect, pc, compliant, selection, commands, after, environ,
                   transmission, episodes, seeded, idx, counters, file_reports>>
    /\ UNCHANGED <<cycle_no, sleep_seconds, rpc, modified_before>>

\* for cmd in commands: logged; in a dry run skipped, else run with success.
RunNextCommand ==
    /\ pc = "run" /\ cmd_i <= Len(commands)
    /\ IF environ.DRY_RUN
       THEN UNCHANGED <<disk, calls>>
       ELSE /\ disk' = [disk EXCEPT ![Path] = RunCommand(@, commands[cmd_i])]
            /\ calls' = Append(calls, Call("mkvpropedit", TRUE))
    /\ cmd_i' = cmd_i + 1
    /\ UNCHANGED <<inspect, pc, compliant, selection, commands, after, environ,
                   transmission, episodes, seeded, idx, counters, file_reports>>
    /\ UNCHANGED <<cycle_no, sleep_seconds, rpc,
                   modified_before>>

\* The failure of a command counted as an error but not reported.
CommandFailsUnreported ==
    /\ pc = "run" /\ cmd_i <= Len(commands)
    /\ ~environ.DRY_RUN
    /\ calls' = Append(calls, Call("mkvpropedit", FALSE))
    /\ counters' = [counters EXCEPT !.errors = @ + 1]
    /\ Continue
    /\ UNCHANGED <<inspect, compliant, selection, commands, after, environ,
                   transmission, episodes, disk, seeded, cmd_i, file_reports>>
    /\ UNCHANGED <<cycle_no, sleep_seconds, rpc, modified_before>>

\* subprocess.run(cmd, check=True) raises CalledProcessError.
CommandFails ==
    /\ pc = "run" /\ cmd_i <= Len(commands)
    /\ ~environ.DRY_RUN
    /\ calls' = Append(calls, Call("mkvpropedit", FALSE))
    /\ counters' = [counters EXCEPT !.errors = @ + 1]
    /\ file_reports' = Append(file_reports,
            FileReport(Path, FALSE, FALSE, Some("Command failed"), FALSE,
                       Some("Command execution failed"), None, None))
    /\ Continue
    /\ UNCHANGED <<inspect, compliant, selection, commands, after, environ,
                   transmission, episodes, disk, seeded, cmd_i>>
    /\ UNCHANGED <<cycle_no, sleep_seconds, rpc,
                   modified_before>>

\* apply_flags returned: the file is counted and reported as modified.
FileModified ==
    /\ pc = "run" /\ cmd_i > Len(commands)
    /\ counters' = [counters EXCEPT !.files_modified = @ + 1]
    /\ file_reports' = Append(file_reports,
            FileReport(Path, FALSE, TRUE, None, FALSE, None,
                       Get(selection).audio_track_index,
                       Get(selection).subtitle_track_index))
    /\ Continue
    /\ UNCHANGED <<inspect, compliant, selection, commands, after, environ,
                   transmission, episodes, disk, seeded, cmd_i, calls>>
    /\ UNCHANGED <<cycle_no, sleep_seconds, rpc,
                   modified_before>>

\* The loop over the episode records has ended.
CycleDone ==
    /\ pc = "file" /\ idx > Len(episodes)
    /\ pc' = "done"
    /\ UNCHANGED <<inspect, compliant, selection, commands, after, cycle>>

Next ==
    \/ BuildSeededIndex
    \/ GetSeries
    \/ GetSeriesFails
    \/ FetchEpisodesFails
    \/ SkipEpisode
    \/ CheckSeeded
    \/ IdentifyTracks
    \/ IdentifyFails
    \/ CheckCompliant
    \/ ChooseSelection
    \/ BuildCommands
    \/ RunNextCommand
    \/ CommandFails
    \/ FileModified
    \/ CycleDone

Spec == Init /\ [][Next]_vars

\* ------------------------------------------------------------------- main
\* The main loop on one file that needs a change, one that is compliant or
\* one without audio and subtitle tracks, followed by a record without a file.
\* RUN_ONCE is set or not; POLL_INTERVAL_HOURS is unset, negative, zero or
\* positive.
PollIntervals == {None, Some(0 - 2), Some(0), Some(3)}

\* get_env_int: the default when the variable is unset, else its integer.
get_env_int(value, default) == IF value = None THEN default ELSE Get(value)
DefaultPollIntervalHours == 24
SecondsPerHour == 3600
Max(a, b) == IF a >= b THEN a ELSE b

InitMain ==
    /\ \E run_once \in BOOLEAN, hours \in PollIntervals :
          environ = [EXCLUDE_SEEDING |-> TRUE, DRY_RUN |-> FALSE,
                     TRANSMISSION_RPC_URL |-> TRUE,
                     PATH_MAP_FROM |-> None, PATH_MAP_TO |-> None,
                     RUN_ONCE |-> run_once, POLL_INTERVAL_HOURS |-> hours]
    /\ transmission \in TransmissionAnswers
    /\ episodes = [i \in 1..MaxFiles |->
                     IF i < MaxFiles THEN EpisodeWithFile(i) ELSE EpisodeWithoutFile]
    /\ \E found \in [1..MaxFiles -> {ScenarioA, ScenarioB, ScenarioC, VideoOnly}] :
          disk = [p \in {FilePath(i) : i \in 1..MaxFiles} |->
                    LET i == CHOOSE i \in 1..MaxFiles : p = FilePath(i)
                    IN  IF i < MaxFiles THEN found[i] ELSE VideoOnly]
    /\ seeded = <<{}, {}>>
    /\ idx = 0
    /\ cmd_i = 0
    /\ counters = [files_considered |-> 0, files_modified |-> 0,
                   files_skipped_seed |-> 0, errors |-> 0]
    /\ file_reports = <<>>
    /\ calls = <<>>
    /\ cycle_no = 1
    /\ sleep_seconds = 0
    /\ modified_before = {}
    /\ rpc = NoClient
    /\ pc = "start"
    /\ inspect = <<>>
    /\ compliant = None
    /\ selection = None
    /\ commands = <<>>
    /\ after = <<>>

\* main: process_once returned and RUN_ONCE is true: `break`, main returns.
Exit ==
    /\ pc = "done" /\ environ.RUN_ONCE
    /\ pc' = "exited"
    /\ UNCHANGED <<engine_data, cycle>>

\* main: process_once returned and RUN_ONCE is false:
\* time.sleep(max(interval_hours, 1) * 3600).
Sleep ==
    /\ pc = "done" /\ ~environ.RUN_ONCE
    /\ sleep_seconds' =
          Max(get_env_int(environ.POLL_INTERVAL_HOURS, DefaultPollIntervalHours), 1)
              * SecondsPerHour
    /\ pc' = "sleeping"
    /\ UNCHANGED <<engine_data, environ, transmission, episodes, disk, seeded, idx,
                   cmd_i, counters, file_reports, calls, cycle_no, rpc,
                   modified_before>>

\* main: the sleep is over; process_once is called again, with fresh locals,
\* and the transfer client may answer anew.
NextCycle ==
    /\ pc = "sleeping" /\ cycle_no < MaxCycles
    /\ cycle_no' = cycle_no + 1
    /\ transmission' \in TransmissionAnswers
    /\ idx' = 0
    /\ cmd_i' = 0
    /\ counters' = [files_considered |-> 0, files_modified |-> 0,
                    files_skipped_seed |-> 0, errors |-> 0]
    /\ file_reports' = <<>>
    /\ calls' = <<>>
    /\ pc' = "start"
    /\ inspect' = <<>>
    /\ compliant' = None
    /\ selection' = None
    /\ commands' = <<>>
    /\ modified_before' = {file_reports[k].file_path :
                              k \in {j \in 1..Len(file_reports) :
                                        file_reports[j].was_modified}}
    /\ UNCHANGED <<after, environ, episodes, disk, seeded, sleep_seconds, rpc>>

NextMain == Next \/ Exit \/ Sleep \/ NextCycle

SpecMain == InitMain /\ [][NextMain]_vars

\* ---------------------------------------------- is_seeded on a seed index
\* Catalog paths: the first file's path written with a repeated and a
\* trailing slash, the same file with an upper-case name, and the second
\* file's path. Catalog sizes: none, and the first file's size.
CatalogPathPool ==
    { <<"/", "d", "/", "/", "a", ".", "m", "k", "v", "/">>,
      <<"/", "d", "/", "A", ".", "m", "k", "v">>,
      FilePath(2) }
CatalogSizes == {None, Some(FileSize(1))}
\* Paths the transfer client reports: the first file's own path, the same
\* name in another directory, a longer name ending in the same characters,
\* and the second file's name in another directory.
SeededPathPool ==
    { FilePath(1),
      <<"/", "x", "/", "a", ".", "m", "k", "v">>,
      <<"/", "x", "/", "b", "a", ".", "m", "k", "v">>,
      <<"/", "x", "/", "b", ".", "m", "k", "v">> }
NameSizePool ==
    { <<Lower(Tail_(FilePath(1))), FileSize(1)>>,
      <<Lower(Tail_(FilePath(2))), FileSize(2)>> }
\* PATH_MAP_FROM and PATH_MAP_TO: unset, only one of them set, a directory
\* prefix, and a prefix that reaches into the file name.
PathMaps ==
    { <<None, None>>,
      <<Some(<<"/", "d">>), None>>,
      <<Some(<<"/", "d">>), Some(<<"/", "x">>)>>,
      <<Some(<<"/", "d", "/", "a">>), Some(<<"/", "x", "/", "b">>)>> }

InitSeeded ==
    /\ \E map \in PathMaps :
          environ = [EXCLUDE_SEEDING |-> TRUE, DRY_RUN |-> FALSE,
                     TRANSMISSION_RPC_URL |-> TRUE,
                     PATH_MAP_FROM |-> map[1], PATH_MAP_TO |-> map[2]]
    /\ \E paths \in SUBSET SeededPathPool, name_sizes \in SUBSET NameSizePool :
          /\ transmission = [fails |-> FALSE, paths |-> paths, name_sizes |-> name_sizes]
          /\ seeded = <<paths, name_sizes>>
    /\ episodes = <<>>
    /\ disk = <<>>
    /\ idx = 0
    /\ cmd_i = 0
    /\ counters = [files_considered |-> 0, files_modified |-> 0,
                   files_skipped_seed |-> 0, errors |-> 0]
    /\ file_reports = <<>>
    /\ calls = <<>>
    /\ cycle_no = 0
    /\ sleep_seconds = 0
    /\ modified_before = {}
    /\ rpc = NoClient
    /\ pc = "matching"
    /\ inspect = <<>>
    /\ compliant = None
    /\ selection = None
    /\ commands = <<>>
    /\ after = <<>>

\* is_seeded keeping the path it was asked about in the path set.
IsSeededCallAddsPath ==
    /\ pc = "matching" /\ Len(calls) < MaxCalls
    /\ \E path \in CatalogPathPool, size \in CatalogSizes :
          /\ calls' = Append(calls,
                     [op |-> "is_seeded", path |-> path, size |-> size,
                      paths |-> seeded[1], name_sizes |-> seeded[2],
                      res |-> is_seeded(path, seeded[1], seeded[2], size, environ)])
          /\ seeded' = <<seeded[1] \union {normalize_path(path)}, seeded[2]>>
    /\ UNCHANGED <<engine, environ, transmission, episodes, disk, idx,
                   cmd_i, counters, file_reports>>
    /\ UNCHANGED <<cycle_no, sleep_seconds, rpc,
                   modified_before>>

\* One call of is_seeded on the index, for some catalog path and size; the
\* arguments and the result are kept in the history.
IsSeededCall ==
    /\ pc = "matching" /\ Len(calls) < MaxCalls
    /\ \E path \in CatalogPathPool, size \in CatalogSizes :
          calls' = Append(calls,
                     [op |-> "is_seeded", path |-> path, size |-> size,
                      paths |-> seeded[1], name_sizes |-> seeded[2],
                      res |-> is_seeded(path, seeded[1], seeded[2], size, environ)])
    /\ UNCHANGED <<engine, environ, transmission, episodes, disk, seeded, idx,
                   cmd_i, counters, file_reports>>
    /\ UNCHANGED <<cycle_no, sleep_seconds, rpc,
                   modified_before>>

NextSeeded == IsSeededCall

SpecSeeded == InitSeeded /\ [][NextSeeded]_vars

\* ---------------------------------------------- _lang_code on a tag
\* Language tags: absent, every string of up to MaxLangLen characters of an
\* alphabet with letters in both cases and whitespace, and some longer tags.
LangAlphabet == {"j", "a", "p", "n", "e", "g", "J", "E", " "}
LongTags ==
    { <<"j","a","p","a","n","e","s","e">>,
      <<"J","a","p","a","n","e","s","e"," ">>,
      <<"e","n","g","l","i","s","h">>,
      <<"\t","E","N","G","L","I","S","H","\n">>,
      <<"f","r","e","n","c","h">>,
      <<" ","K","o","r"," ">> }
LangInputs ==
    {None}
    \union {Some(tag) : tag \in UNION {[1..n -> LangAlphabet] : n \in 0..MaxLangLen}}
    \union {Some(tag) : tag \in LongTags}

InitLang ==
    /\ pc = "language"
    /\ calls = <<>>
    /\ inspect = <<>>
    /\ compliant = None
    /\ selection = None
    /\ commands = <<>>
    /\ after = <<>>
    /\ environ = [EXCLUDE_SEEDING |-> FALSE, DRY_RUN |-> FALSE,
                  TRANSMISSION_RPC_URL |-> FALSE,
                  PATH_MAP_FROM |-> None, PATH_MAP_TO |-> None]
    /\ transmission = [fails |-> FALSE, paths |-> {}, name_sizes |-> {}]
    /\ episodes = <<>>
    /\ disk = <<>>
    /\ seeded = <<{}, {}>>
    /\ idx = 0
    /\ cmd_i = 0
    /\ counters = [files_considered |-> 0, files_modified |-> 0,
                   files_skipped_seed |-> 0, errors |-> 0]
    /\ file_reports = <<>>
    /\ cycle_no = 0
    /\ sleep_seconds = 0
    /\ modified_before = {}
    /\ rpc = NoClient

\* One call of _lang_code on some tag; the argument and the result are kept.
LangCode ==
    /\ pc = "language" /\ calls = <<>>
    /\ \E val \in LangInputs :
          calls' = <<[op |-> "_lang_code", val |-> val, res |-> _lang_code(val)]>>
    /\ UNCHANGED <<engine, environ, transmission, episodes, disk, seeded, idx,
                   cmd_i, counters, file_reports, cycle_no, sleep_seconds, rpc,
                   modified_before>>

NextLang == LangCode

SpecLang == InitLang /\ [][NextLang]_vars

\* ----------------------------------------- TransmissionClient._rpc
\* Largest number of _rpc calls made on one client object.
MaxRpcCalls == 2

HttpOk == 200
HttpConflict == 409
HttpServerError == 500
SessionHeaders == {None, Some(<<>>), Some(<<"s","1">>), Some(<<"s","2">>)}

\* One HTTP answer: status None stands for session.post raising (no answer);
\* session is the X-Transmission-Session-Id header; result is the "result"
\* member of the JSON body (None: absent).
Response(status, session, result) ==
    [status |-> status, session |-> session, result |-> result]
Responses ==
    {Response(None, None, None), Response(Some(HttpServerError), None, None)}
    \union {Response(Some(HttpOk), None, r) :
               r \in {None, Some("success"), Some("duplicate torrent")}}
    \union {Response(Some(HttpConflict), h, None) : h \in SessionHeaders}

\* requests.Response.raise_for_status: raises on a 4xx or 5xx status.
raise_for_status(resp) == Get(resp.status) >= 400 /\ Get(resp.status) < 600

\* The header sent with a request: the stored session id when it is truthy.
RequestHeaders(session_id) == IF TruthyStr(session_id) THEN session_id ELSE None

\* The end of _rpc on the last answer: raise_for_status, then the body.
RpcOutcome(resp) ==
    IF resp.status = None THEN "raised"
    ELSE IF raise_for_status(resp) THEN "raised"
    ELSE IF resp.result # Some("success") THEN "raised"
    ELSE "arguments"

\* _rpc that retries with the new session id but does not keep it.
_rpc_forgets(session_id, first, second) ==
    LET headers == RequestHeaders(session_id)
        once == [session_id |-> session_id, sent |-> <<headers>>,
                 got |-> <<first>>, outcome |-> RpcOutcome(first)]
    IN IF first.status # Some(HttpConflict) THEN once
       ELSE IF ~TruthyStr(first.session) THEN once
       ELSE [session_id |-> session_id, sent |-> <<headers, first.session>>,
             got |-> <<first, second>>, outcome |-> RpcOutcome(second)]

\* TransmissionClient._rpc on a client whose stored id is session_id, when
\* the server answers `first` and, if asked again, `second`: the new stored
\* id, the header of each request sent, the answers read, and the outcome.
_rpc(session_id, first, second) ==
    LET headers == RequestHeaders(session_id)
        once == [session_id |-> session_id, sent |-> <<headers>>,
                 got |-> <<first>>, outcome |-> RpcOutcome(first)]
    IN IF first.status # Some(HttpConflict) THEN once
       ELSE IF ~TruthyStr(first.session) THEN once
       ELSE [session_id |-> first.session, sent |-> <<headers, first.session>>,
             got |-> <<first, second>>, outcome |-> RpcOutcome(second)]

InitRpc ==
    /\ pc = "rpc"
    /\ rpc = NoClient
    /\ calls = <<>>
    /\ inspect = <<>>
    /\ compliant = None
    /\ selection = None
    /\ commands = <<>>
    /\ after = <<>>
    /\ environ = [EXCLUDE_SEEDING |-> FALSE, DRY_RUN |-> FALSE,
                  TRANSMISSION_RPC_URL |-> FALSE,
                  PATH_MAP_FROM |-> None, PATH_MAP_TO |-> None]
    /\ transmission = [fails |-> FALSE, paths |-> {}, name_sizes |-> {}]
    /\ episodes = <<>>
    /\ disk = <<>>
    /\ seeded = <<{}, {}>>
    /\ idx = 0
    /\ cmd_i = 0
    /\ counters = [files_considered |-> 0, files_modified |-> 0,
                   files_skipped_seed |-> 0, errors |-> 0]
    /\ file_reports = <<>>
    /\ cycle_no = 0
    /\ sleep_seconds = 0
    /\ modified_before = {}

\* One call of _rpc on the client; every request and answer is kept with the
\* number of the call it belongs to.
RpcCall ==
    /\ pc = "rpc" /\ Len(rpc.outcomes) < MaxRpcCalls
    /\ \E first, second \in Responses :
          LET r == _rpc(rpc._session_id, first, second)
              n == Len(rpc.outcomes) + 1
          IN rpc' = [_session_id |-> r.session_id,
                     sent |-> rpc.sent \o [i \in 1..Len(r.sent) |->
                                 [call |-> n, session |-> r.sent[i]]],
                     got |-> rpc.got \o r.got,
                     outcomes |-> Append(rpc.outcomes, r.outcome)]
    /\ UNCHANGED <<engine, environ, transmission, episodes, disk, seeded, idx,
                   cmd_i, counters, file_reports, calls, cycle_no, sleep_seconds,
                   modified_before>>

NextRpc == RpcCall

SpecRpc == InitRpc /\ [][NextRpc]_vars

\* ------------------------- TransmissionClient.get_seeding_file_index
\* Largest number of torrents in one torrent-get answer.
MaxTorrents == 2

\* Transmission's status codes, among them those that are not seeding.
StatusStopped == 0
StatusDownload == 4
StatusSeedWait == 5
StatusSeed == 6
Statuses == {None, Some(StatusStopped), Some(StatusDownload),
             Some(StatusSeedWait), Some(StatusSeed)}

\* seeding_statuses that also holds the downloading status.
seeding_statuses_and_download == {StatusDownload, StatusSeedWait, StatusSeed}

seeding_statuses == {StatusSeedWait, StatusSeed}

\* str(pathlib.Path(base_dir) / rel_path): an absolute rel_path replaces
\* base_dir; the result is in pathlib's normal form.
PathJoin(base_dir, rel_path) ==
    IF StartsWith(rel_path, <<"/">>) THEN normalize_path(rel_path)
    ELSE IF base_dir = <<>> THEN normalize_path(rel_path)
    ELSE normalize_path(base_dir \o <<"/">> \o rel_path)

\* pathlib.Path(rel_path).name: the final component, "" when there is none.
PathName(rel_path) ==
    LET n == normalize_path(rel_path)
    IN IF n = <<".">> \/ n = <<"/">> THEN <<>> ELSE Tail_(n)

\* Python's `x or ""` and `x or 0` on an Optional value.
OrEmpty(o) == IF TruthyStr(o) THEN Get(o) ELSE <<>>
OrZero(o) == IF TruthyInt(o) THEN Get(o) ELSE 0

\* The file lists and download directories of the torrents of the pool.
TorrentFile(name, length) == [name |-> name, length |-> length]
TorrentBodies ==
    { [downloadDir |-> Some(<<"/","d">>),
       files |-> <<TorrentFile(Some(<<"a",".","m","k","v">>), Some(FileSize(1)))>>],
      [downloadDir |-> Some(<<"/","x","/">>),
       files |-> <<TorrentFile(Some(<<"S","/","B",".","m","k","v">>), Some(FileSize(2))),
                   TorrentFile(None, None)>>],
      [downloadDir |-> None,
       files |-> <<TorrentFile(Some(<<"/","q","/","c",".","m","k","v">>), Some(0))>>],
      [downloadDir |-> Some(<<"/","e">>), files |-> <<>>] }
Torrents ==
    {[status |-> st, downloadDir |-> b.downloadDir, files |-> b.files] :
        st \in Statuses, b \in TorrentBodies}

\* The inner loop of get_seeding_file_index over the files of one torrent.
RECURSIVE AddFiles(_, _, _)
AddFiles(index, base_dir, files) ==
    IF files = <<>> THEN index
    ELSE LET f == Head(files)
             rel_path == OrEmpty(f.name)
             size == OrZero(f.length)
         IN AddFiles(<<index[1] \union {PathJoin(base_dir, rel_path)},
                       index[2] \union {<<Lower(PathName(rel_path)), size>>}>>,
                     base_dir, Tail(files))

\* The outer loop over the torrents: those not seeding are passed over.
RECURSIVE AddTorrents(_, _)
AddTorrents(index, torrents) ==
    IF torrents = <<>> THEN index
    ELSE LET t == Head(torrents)
         IN IF t.status = None THEN AddTorrents(index, Tail(torrents))
            ELSE IF Get(t.status) \notin seeding_statuses
                 THEN AddTorrents(index, Tail(torrents))
            ELSE AddTorrents(AddFiles(index, OrEmpty(t.downloadDir), t.files),
                             Tail(torrents))

\* get_seeding_file_index on the torrents that torrent-get returned.
get_seeding_file_index(torrents) == AddTorrents(<<{}, {}>>, torrents)

InitIndex ==
    /\ pc = "torrents"
    /\ \E n \in 0..MaxTorrents : \E ts \in [1..n -> Torrents] :
          transmission = [torrents |-> ts]
    /\ seeded = <<{}, {}>>
    /\ rpc = NoClient
    /\ calls = <<>>
    /\ inspect = <<>>
    /\ compliant = None
    /\ selection = None
    /\ commands = <<>>
    /\ after = <<>>
    /\ environ = [EXCLUDE_SEEDING |-> FALSE, DRY_RUN |-> FALSE,
                  TRANSMISSION_RPC_URL |-> FALSE,
                  PATH_MAP_FROM |-> None, PATH_MAP_TO |-> None]
    /\ episodes = <<>>
    /\ disk = <<>>
    /\ idx = 0
    /\ cmd_i = 0
    /\ counters = [files_considered |-> 0, files_modified |-> 0,
                   files_skipped_seed |-> 0, errors |-> 0]
    /\ file_reports = <<>>
    /\ cycle_no = 0
    /\ sleep_seconds = 0
    /\ modified_before = {}

\* get_seeding_file_index returns the two sets for the torrents it was given.
GetSeedingFileIndex ==
    /\ pc = "torrents"
    /\ seeded' = get_seeding_file_index(transmission.torrents)
    /\ pc' = "indexed"
    /\ UNCHANGED <<engine_data, environ, transmission, episodes, disk, idx, cmd_i,
                   counters, file_reports, calls, cycle_no, sleep_seconds, rpc,
                   modified_before>>

NextIndex == GetSeedingFileIndex

SpecIndex == InitIndex /\ [][NextIndex]_vars

\* ===================================================================
\* Properties of the decision engine, checked under SpecTracks.
\* ===================================================================
\* Positions of the tracks of a type, the least position of a set, and the
\* predicates of the policy stated on one track.
PositionsOfType(inv, type) == {i \in 1..Len(inv) : inv[i].type = type}
AudioPos == PositionsOfType(inspect, "audio")
SubPos == PositionsOfType(inspect, "subtitles")
Least(S) == CHOOSE i \in S : \A j \in S : i <= j
NormLang(t) == _lang_code(t.properties.language)
NameMatches(t, pattern) ==
    /\ t.properties.track_name # None
    /\ \E a \in pattern : Contains(Lower(Get(t.properties.track_name)), a)
JapaneseCandidates == {i \in AudioPos :
    NormLang(inspect[i]) = Some(JPN) \/ NameMatches(inspect[i], JapanesePattern)}
EnglishSubs == {i \in SubPos : NormLang(inspect[i]) = Some(ENG)}
EnglishNonSigns == {i \in EnglishSubs : ~NameMatches(inspect[i], SignsPattern)}
EnglishFull == {i \in EnglishNonSigns : NameMatches(inspect[i], FullPattern)}
\* The states right after is_file_compliant and right after choose_tracks
\* returned (their results stay as they are from then on).
Evaluated == pc = "evaluated"
Chosen == pc = "chosen"
Sel == Get(selection)

\* C2: is_file_compliant is true iff (exactly one audio track, or the first
\* default-flagged audio track exists and normalises to jpn) and (the first
\* default-flagged subtitle track exists and normalises to eng).
C2_ComplianceRule ==
    Evaluated =>
        LET DA == {i \in AudioPos : inspect[i].properties.default_track}
            DS == {i \in SubPos : inspect[i].properties.default_track}
        IN  Get(compliant) <=>
              /\ \/ Cardinality(AudioPos) = 1
                 \/ DA # {} /\ NormLang(inspect[Least(DA)]) = Some(JPN)
              /\ DS # {} /\ NormLang(inspect[Least(DS)]) = Some(ENG)

\* C2 witness: two default-flagged audio tracks, the first Japanese and the
\* second not, and the file was found compliant.
C2_Witness ==
    /\ Evaluated /\ Get(compliant)
    /\ \E i, j \in AudioPos :
          /\ i < j
          /\ inspect[i].properties.default_track
          /\ inspect[j].properties.default_track
          /\ NormLang(inspect[i]) = Some(JPN)
          /\ NormLang(inspect[j]) # Some(JPN)

\* C3: with an audio track count other than one, should_change_audio is true
\* iff a Japanese audio candidate exists; then audio_track_index is the id of
\* the first candidate and audio_language_code is jpn; else both are absent.
C3_AudioDecision ==
    (Chosen /\ Cardinality(AudioPos) # 1) =>
        IF JapaneseCandidates # {}
        THEN /\ Sel.should_change_audio = TRUE
             /\ Sel.audio_track_index = Some(inspect[Least(JapaneseCandidates)].id)
             /\ Sel.audio_language_code = Some(JPN)
        ELSE /\ Sel.should_change_audio = FALSE
             /\ Sel.audio_track_index = None
             /\ Sel.audio_language_code = None

\* C3 witness: several audio tracks, two candidates, the first one has id 0
\* and was selected.
C3_Witness ==
    /\ Chosen
    /\ Cardinality(JapaneseCandidates) >= 2
    /\ inspect[Least(JapaneseCandidates)].id = 0
    /\ Sel.should_change_audio
    /\ Sel.audio_track_index = Some(0)

\* C4: when a non-signs English subtitle track exists, subtitle_track_index is
\* the id of the first such track matching full|dialogue|sdh, else of the
\* first such track, whatever the ids are.
C4_EnglishFullChosen ==
    (Chosen /\ EnglishNonSigns # {}) =>
        Sel.subtitle_track_index =
            Some(inspect[IF EnglishFull # {} THEN Least(EnglishFull)
                         ELSE Least(EnglishNonSigns)].id)

\* C5: when every English subtitle track is a signs track and one exists,
\* subtitle_track_index is the id of the first English subtitle track.
C5_SignsFallback ==
    (Chosen /\ EnglishSubs # {} /\ EnglishNonSigns = {}) =>
        Sel.subtitle_track_index = Some(inspect[Least(EnglishSubs)].id)

\* C6: with subtitle tracks but no English one, subtitle_track_index is the
\* id of the first subtitle track; and subtitle_track_index is absent iff the
\* inventory has no subtitle track.
C6_AnySubFallback ==
    Chosen =>
        /\ (SubPos # {} /\ EnglishSubs = {}) =>
              Sel.subtitle_track_index = Some(inspect[Least(SubPos)].id)
        /\ (Sel.subtitle_track_index = None) <=> (SubPos = {})

\* C6 witness: no English subtitle track, the first subtitle track has id 0
\* and is the one chosen.
C6_Witness ==
    /\ Chosen
    /\ SubPos # {} /\ EnglishSubs = {}
    /\ inspect[Least(SubPos)].id = 0
    /\ Sel.subtitle_track_index = Some(0)

\* C7: subtitle_language_code is eng when the chosen subtitle track came from
\* the English-tagged pool (an English subtitle track exists), and absent
\* when the any-subtitle fallback chose it or nothing was chosen.
C7_SubtitleLanguage ==
    Chosen =>
        Sel.subtitle_language_code = (IF EnglishSubs # {} THEN Some(ENG) ELSE None)

\* Other audio configurations around the same subtitle tracks: the audio
\* tracks removed (no audio track), or one more audio track with a fresh id
\* appended (two audio tracks), Japanese or not.
WithoutAudio(inv) == LET NotAudio(t) == t.type # "audio" IN SelectSeq(inv, NotAudio)
OtherAudioConfigurations(inv) ==
    { WithoutAudio(inv),
      Append(inv, WithId(Track("audio", Some(JPN), None, FALSE), Len(inv))),
      Append(inv, WithId(Track("audio", Some(ENG), None, TRUE), Len(inv))) }

\* C8: with exactly one audio track, whatever its language or name,
\* should_change_audio is false and audio_track_index and audio_language_code
\* are absent, while the subtitle decision is the one made for any other
\* audio configuration around the same subtitle tracks.
C8_SingleAudioUntouched ==
    (Chosen /\ Cardinality(AudioPos) = 1) =>
        /\ Sel.should_change_audio = FALSE
        /\ Sel.audio_track_index = None
        /\ Sel.audio_language_code = None
        /\ \A other \in OtherAudioConfigurations(inspect) :
              /\ choose_tracks(other).subtitle_track_index = Sel.subtitle_track_index
              /\ choose_tracks(other).subtitle_language_code = Sel.subtitle_language_code

\* C8 witness: the only audio track is Japanese, and a subtitle track was
\* still selected.
C8_Witness ==
    /\ Chosen
    /\ Cardinality(AudioPos) = 1
    /\ JapaneseCandidates # {}
    /\ Sel.should_change_audio = FALSE
    /\ Sel.subtitle_track_index # None
    /\ Sel.subtitle_language_code = Some(ENG)

\* C9: with zero subtitle tracks is_file_compliant is false and
\* subtitle_track_index is absent; with several audio tracks and a Japanese
\* candidate in addition, audio_track_index is set and every command of
\* apply_flags targets an audio track.
C9_NoSubtitles ==
    (SubPos = {}) =>
        /\ Evaluated => Get(compliant) = FALSE
        /\ Chosen => Sel.subtitle_track_index = None
        /\ (Chosen /\ Cardinality(AudioPos) > 1 /\ JapaneseCandidates # {}) =>
              Sel.audio_track_index # None
        /\ (pc = "applied" /\ Cardinality(AudioPos) > 1 /\ JapaneseCandidates # {}) =>
              /\ commands # <<>>
              /\ \A k \in 1..Len(commands) :
                    \E i \in AudioPos : inspect[i].id = commands[k].edit

\* C9 witness: no subtitle track, a video track, two audio tracks one of them
\* Japanese, and apply_flags has built its commands.
C9_Witness ==
    /\ pc = "applied"
    /\ SubPos = {}
    /\ Cardinality(AudioPos) > 1
    /\ JapaneseCandidates # {}
    /\ \E i \in 1..Len(inspect) : inspect[i].type = "video"
    /\ Len(commands) = 3

\* C10: for a non-compliant inventory with a Japanese audio candidate and an
\* English subtitle track, choose_tracks, then every command of apply_flags
\* applied, then is_file_compliant on the result gives true.
C10_SelectApplyCompliant ==
    (pc = "applied" /\ Get(compliant) = FALSE
        /\ JapaneseCandidates # {} /\ EnglishSubs # {}) =>
        is_file_compliant(after)

\* The states right after apply_flags built its commands and all of them ran.
Applied == pc = "applied"
\* A command that clears the default and forced flags, one that sets the
\* default flag, and the commands that edit the track at a position.
IsClear(c) == c.flag_default = Some(0) /\ c.flag_forced = Some(0)
IsSet(c) == c.flag_default = Some(1)
CommandsFor(i) == {k \in 1..Len(commands) : commands[k].edit = inspect[i].id}

\* C15: in the command list of apply_flags every command that clears the
\* default and forced flags precedes every command that sets a default flag;
\* a clear command is built for every subtitle track always and for every
\* audio track exactly when should_change_audio is true; once every command
\* has run, a subtitle track has the default flag iff it is the selected
\* one, and when should_change_audio is true an audio track has the default
\* flag iff it is the selected one.
C15_ClearBeforeSet ==
    Applied =>
        /\ \A i, j \in 1..Len(commands) :
              (IsClear(commands[i]) /\ IsSet(commands[j])) => i < j
        /\ \A k \in 1..Len(commands) : IsClear(commands[k]) \/ IsSet(commands[k])
        /\ \A i \in SubPos : \E k \in CommandsFor(i) : IsClear(commands[k])
        /\ \A i \in AudioPos :
              (\E k \in CommandsFor(i) : IsClear(commands[k])) <=> Sel.should_change_audio
        /\ \A i \in SubPos :
              after[i].properties.default_track <=>
                  (Sel.subtitle_track_index = Some(inspect[i].id))
        /\ Sel.should_change_audio =>
              \A i \in AudioPos :
                  after[i].properties.default_track <=>
                      (Sel.audio_track_index = Some(inspect[i].id))

\* C15 witness: two audio tracks and a subtitle track; the audio default was
\* on the track that is not selected and the selected subtitle track had no
\* default flag; five commands ran, and the defaults have moved.
C15_Witness ==
    /\ Applied
    /\ Cardinality(AudioPos) = 2 /\ Cardinality(SubPos) = 1
    /\ Sel.should_change_audio
    /\ Len(commands) = 5
    /\ \E i \in AudioPos :
          /\ inspect[i].properties.default_track
          /\ ~after[i].properties.default_track
    /\ \E i \in AudioPos :
          /\ ~inspect[i].properties.default_track
          /\ after[i].properties.default_track
    /\ \E i \in SubPos :
          /\ ~inspect[i].properties.default_track
          /\ after[i].properties.default_track

\* C16: when should_change_audio is false, no command of apply_flags edits
\* an audio track, and once every command has run each audio track has the
\* default flag and the language tag it had (no command carries a forced
\* flag for it either).
C16_AudioUntouched ==
    (Applied /\ ~Sel.should_change_audio) =>
        /\ \A i \in AudioPos : CommandsFor(i) = {}
        /\ \A i \in AudioPos : after[i] = inspect[i]

\* C16 witness: the only audio track is English with the default flag, the
\* commands moved the subtitle default, and the audio track is as it was.
C16_Witness ==
    /\ Applied
    /\ ~Sel.should_change_audio
    /\ commands # <<>>
    /\ \E i \in AudioPos :
          /\ inspect[i].properties.default_track
          /\ NormLang(inspect[i]) = Some(ENG)
          /\ after[i] = inspect[i]
    /\ \E i \in SubPos : after[i] # inspect[i]

\* The ids of the tracks at a set of positions of the inventory.
IdsAt(S) == {inspect[i].id : i \in S}

\* C25: the audio id of the selection, when present, is the id of an audio
\* track of the inventory and the subtitle id, when present, that of a
\* subtitle track; every command of apply_flags edits the id of an audio or
\* subtitle track of the inventory.
C25_TypeCorrectIds ==
    /\ (Chosen \/ Applied) =>
          /\ Sel.audio_track_index # None =>
                Get(Sel.audio_track_index) \in IdsAt(AudioPos)
          /\ Sel.subtitle_track_index # None =>
                Get(Sel.subtitle_track_index) \in IdsAt(SubPos)
    /\ Applied =>
          \A k \in 1..Len(commands) :
             commands[k].edit \in IdsAt(AudioPos \union SubPos)

\* C25 witness: commands were built for an inventory that holds a video
\* track beside two audio tracks, one of which is selected; each audio track
\* is edited and the video track is not.
C25_Witness ==
    /\ Applied
    /\ \E i \in 1..Len(inspect) : inspect[i].type = "video"
    /\ Cardinality(AudioPos) = 2
    /\ Sel.audio_track_index # None
    /\ \A i \in AudioPos : CommandsFor(i) # {}
    /\ \A i \in 1..Len(inspect) :
          inspect[i].type = "video" => CommandsFor(i) = {}

\* ===================================================================
\* Properties of the processing cycle, checked under Spec.
\* ===================================================================
\* Was the call at position j of the history made for file f, before k?
CalledBefore(k, f, op) ==
    {j \in 1..(k - 1) : calls[j].file = f /\ calls[j].op = op}

\* C1: the inspection tool and the mutation tool are never invoked for a file
\* for which seeding exclusion is enabled and is_seeded returned true; and
\* apply_flags is invoked for a file only after, in this order, is_seeded
\* returned false (or exclusion is disabled), is_file_compliant returned false
\* on the inspected inventory, and choose_tracks returned a selection with
\* audio_track_index or subtitle_track_index present.
C1_SeededNeverTouched ==
    \A k \in 1..Len(calls) :
        LET f == calls[k].file
        IN  /\ calls[k].op \in {"identify_tracks", "apply_flags", "mkvpropedit"} =>
                  ~\E j \in 1..Len(calls) :
                        /\ calls[j].file = f
                        /\ calls[j].op = "is_seeded"
                        /\ calls[j].res = TRUE
            /\ calls[k].op = "mkvpropedit" => CalledBefore(k, f, "apply_flags") # {}
            /\ calls[k].op = "apply_flags" =>
                  \E i \in CalledBefore(k, f, "identify_tracks"),
                     c \in CalledBefore(k, f, "is_file_compliant"),
                     s \in CalledBefore(k, f, "choose_tracks") :
                        /\ i < c /\ c < s
                        /\ IF environ.EXCLUDE_SEEDING
                           THEN \E q \in CalledBefore(i, f, "is_seeded") :
                                    calls[q].res = FALSE
                           ELSE CalledBefore(k, f, "is_seeded") = {}
                        /\ calls[i].res = TRUE
                        /\ calls[c].res = FALSE
                        /\ \/ calls[s].res.audio_track_index # None
                           \/ calls[s].res.subtitle_track_index # None

\* C1 witness: in one cycle the first file was found seeding and skipped, and
\* the second was inspected, found non-compliant and mutated.
C1_Witness ==
    /\ \E j \in 1..Len(calls) :
          calls[j].file = 1 /\ calls[j].op = "is_seeded" /\ calls[j].res = TRUE
    /\ \E k \in 1..Len(calls) :
          calls[k].file = 2 /\ calls[k].op = "mkvpropedit" /\ calls[k].res = TRUE
    /\ pc = "done"

\* The reports of the cycle made for the file of episode record f.
ReportsOf(f) ==
    {r \in 1..Len(file_reports) : file_reports[r].file_path = Get(episodes[f].path)}
\* How many reports of the cycle satisfy a test.
ErrorReports == {r \in 1..Len(file_reports) : file_reports[r].error_message # None}
ModifiedReports == {r \in 1..Len(file_reports) : file_reports[r].was_modified}

\* C11: when choose_tracks returns a selection with audio_track_index and
\* subtitle_track_index both absent, apply_flags is not invoked and no
\* mutation command is issued for the file, the file is reported once, with no
\* error_message and not as modified, the errors and files_modified counters
\* count only the files reported so, and the loop has moved on to the next
\* episode record.
C11_NoOpSelection ==
    /\ counters.errors = Cardinality(ErrorReports)
    /\ counters.files_modified = Cardinality(ModifiedReports)
    /\ \A k \in 1..Len(calls) :
          (/\ calls[k].op = "choose_tracks"
           /\ calls[k].res.audio_track_index = None
           /\ calls[k].res.subtitle_track_index = None) =>
             LET f == calls[k].file
             IN  /\ ~\E j \in 1..Len(calls) :
                        /\ calls[j].file = f
                        /\ calls[j].op \in {"apply_flags", "mkvpropedit"}
                 /\ idx > f
                 /\ Cardinality(ReportsOf(f)) = 1
                 /\ \A r \in ReportsOf(f) :
                       /\ file_reports[r].error_message = None
                       /\ file_reports[r].was_modified = FALSE
                       /\ file_reports[r].selected_audio_track = None
                       /\ file_reports[r].selected_subtitle_track = None

\* C11 witness: the first file has neither audio nor subtitle tracks and got
\* an empty selection; the cycle went on and modified the second file, and
\* ended with no error counted.
C11_Witness ==
    /\ pc = "done"
    /\ \E k \in 1..Len(calls) :
          /\ calls[k].file = 1
          /\ calls[k].op = "choose_tracks"
          /\ calls[k].res.audio_track_index = None
          /\ calls[k].res.subtitle_track_index = None
    /\ \E r \in ModifiedReports : file_reports[r].file_path = FilePath(2)
    /\ counters.errors = 0
    /\ counters.files_modified = 1

\* The call a step adds to the history (none when the step adds no call).
Added == IF Len(calls') = Len(calls) + 1 THEN {calls'[Len(calls')]} ELSE {}
\* The calls of the cycle that failed for the file of record f, and the
\* failed episode fetches of the series of record f.
FailedCalls(f) ==
    {k \in 1..Len(calls) : /\ calls[k].file = f
                           /\ calls[k].op \in {"identify_tracks", "mkvpropedit"}
                           /\ calls[k].res = FALSE}
FailedFetches(f) ==
    {k \in 1..Len(calls) : /\ calls[k].op = "get_episodes_for_series"
                           /\ SeriesOf(calls[k].file) = SeriesOf(f)}
\* The records whose turn in the loop is over.
Passed == {f \in 1..Len(episodes) : f < idx}

\* A step in which the inspection or a mutation command fails: one error is
\* counted, one report with an error_message is added for the file at hand,
\* the loop goes on to the next record, and nothing that the evaluation of
\* another file reads has changed.
FileFailureIsolated ==
    (\E c \in Added : c.op \in {"identify_tracks", "mkvpropedit"} /\ c.res = FALSE) =>
        /\ counters' = [counters EXCEPT !.errors = @ + 1]
        /\ Len(file_reports') = Len(file_reports) + 1
        /\ SubSeq(file_reports', 1, Len(file_reports)) = file_reports
        /\ file_reports'[Len(file_reports')].file_path = Path
        /\ file_reports'[Len(file_reports')].error_message # None
        /\ file_reports'[Len(file_reports')].was_modified = FALSE
        /\ idx' = idx + 1 /\ pc' = "file"
        /\ UNCHANGED <<seeded, environ, episodes, transmission, disk>>
\* A step in which the episode fetch of a series fails: nothing is counted or
\* reported, and the loop goes on to the first record of the next series.
FetchFailureIsolated ==
    (\E c \in Added : c.op = "get_episodes_for_series") =>
        /\ UNCHANGED <<counters, file_reports, seeded, environ, episodes,
                       transmission, disk>>
        /\ pc' = "file" /\ idx' > idx
        /\ \A i \in idx..(idx' - 1) : SeriesOf(i) = SeriesOf(idx)
        /\ idx' <= Len(episodes) => SeriesOf(idx') # SeriesOf(idx)
\* The step that asks the transfer client: whatever it answers, the loop over
\* the records starts, with nothing counted; on a failure the index is empty.
TransferFailureIsolated ==
    pc = "start" =>
        /\ pc' = "series"
        /\ UNCHANGED <<counters, file_reports, disk>>
        /\ (environ.EXCLUDE_SEEDING /\ environ.TRANSMISSION_RPC_URL /\ transmission.fails)
              => seeded' = <<{}, {}>>
\* No step changes the container of a file other than the one at hand.
OtherFilesUntouched ==
    \A i \in 1..MaxFiles : i # idx => disk'[FilePath(i)] = disk[FilePath(i)]

\* Every file whose turn is over and whose series was fetched has one report,
\* and the report says what the file's own path, size and container and the
\* cycle's index and environment decide, whatever failed for other files.
OutcomeOfOwnInputs ==
    \A f \in Passed :
        (~NotAnMkvFile(episodes[f]) /\ FailedFetches(f) = {}) =>
            LET p == Get(episodes[f].path)
            IN  /\ Cardinality(ReportsOf(f)) = 1
                /\ \A q \in ReportsOf(f) :
                      LET r == file_reports[q]
                      IN  /\ r.is_seeded <=>
                                IsSeededStatus(environ.EXCLUDE_SEEDING,
                                    is_seeded(p, seeded[1], seeded[2],
                                              episodes[f].size, environ))
                          /\ (r.error_message # None) <=> (FailedCalls(f) # {})
                          /\ r.was_compliant => is_file_compliant(disk[p])
                          /\ (/\ ~r.is_seeded /\ r.error_message = None
                              /\ ~r.was_compliant /\ ~r.was_modified) =>
                                 /\ ~is_file_compliant(disk[p])
                                 /\ NothingToChange(choose_tracks(disk[p]))
                          /\ r.was_modified =>
                                \E k \in 1..Len(calls) :
                                    calls[k].file = f /\ calls[k].op = "apply_flags"

\* C17: a failure of the inspection or of a mutation command for one file is
\* recorded against that file only (errors incremented, a report with an
\* error_message) and the remaining files are evaluated as if it had not
\* happened; a failed episode fetch skips the records of that series only;
\* a failure of the transfer client does not end the cycle.
C17_FailureIsolation ==
    /\ [][ /\ FileFailureIsolated
           /\ FetchFailureIsolated
           /\ TransferFailureIsolated
           /\ OtherFilesUntouched ]_vars
    /\ [](counters.errors = Cardinality(ErrorReports) /\ OutcomeOfOwnInputs)

\* C17 witness: the transfer client failed, a mutation command failed for the
\* first file after an earlier command had run, and the second file was
\* still inspected and modified; the cycle ended with one error counted.
C17_Witness ==
    /\ pc = "done"
    /\ environ.EXCLUDE_SEEDING /\ environ.TRANSMISSION_RPC_URL /\ transmission.fails
    /\ \E k \in FailedCalls(1) : calls[k].op = "mkvpropedit"
    /\ \E k \in 1..Len(calls) :
          calls[k].file = 1 /\ calls[k].op = "mkvpropedit" /\ calls[k].res = TRUE
    /\ \E r \in ModifiedReports : file_reports[r].file_path = FilePath(2)
    /\ counters.errors = 1
    /\ counters.files_modified = 1

\* ===================================================================
\* Properties of the main loop, checked under SpecMain.
\* ===================================================================
\* What the transfer client's answer of the running cycle gives as an index.
ExpectedIndex ==
    IF environ.EXCLUDE_SEEDING /\ environ.TRANSMISSION_RPC_URL /\ ~transmission.fails
    THEN <<transmission.paths, transmission.name_sizes>>
    ELSE <<{}, {}>>
BuildCalls == {k \in 1..Len(calls) : calls[k].op = "build_seeded_path_index"}

\* C18: in each cycle the seed index is built exactly once, before any file
\* is evaluated; every is_seeded call of the cycle is given that index, which
\* no step of the cycle changes; and the index is what the transfer client
\* answered in this cycle, with nothing of the index of the cycle before.
C18_IndexBuiltOncePerCycle ==
    /\ [](pc = "start" => calls = <<>>)
    /\ [](pc # "start" =>
            /\ BuildCalls = {1}
            /\ calls[1].res = ExpectedIndex
            /\ seeded = calls[1].res
            /\ \A k \in 1..Len(calls) :
                  calls[k].op = "is_seeded" => calls[k].index = calls[1].res)
    /\ [][(pc # "start" /\ pc' # "start") =>
             (seeded' = seeded /\ transmission' = transmission)]_vars

\* C18 witness: the second cycle has ended; the cycle before had built an
\* index holding the first file's path, the transfer client failed in this
\* cycle, and is_seeded was given the empty index and returned false.
C18_Witness ==
    /\ cycle_no = 2 /\ pc = "done"
    /\ calls[1].op = "build_seeded_path_index"
    /\ FilePath(1) \in calls[1].last_cycle[1]
    /\ calls[1].res = <<{}, {}>>
    /\ \E k \in 1..Len(calls) :
          /\ calls[k].op = "is_seeded" /\ calls[k].file = 1
          /\ calls[k].index = <<{}, {}>>
          /\ calls[k].res = FALSE

\* The pause main makes between two cycles, in seconds.
PollPause ==
    Max(get_env_int(environ.POLL_INTERVAL_HOURS, DefaultPollIntervalHours), 1)
        * SecondsPerHour

\* C21: main runs one cycle at a time; with RUN_ONCE true it makes exactly
\* one process_once call and never sleeps; with RUN_ONCE false it never
\* terminates, neither by returning nor by an exception, and every cycle
\* after the first starts after a sleep of max(POLL_INTERVAL_HOURS, 1) hours,
\* which is at least one hour.
C21_MainLoop ==
    /\ pc = "start" => (calls = <<>> /\ file_reports = <<>>)
    /\ environ.RUN_ONCE =>
          (cycle_no = 1 /\ sleep_seconds = 0 /\ pc # "sleeping")
    /\ ~environ.RUN_ONCE =>
          /\ pc \notin {"exited", "raised"}
          /\ (pc = "sleeping" \/ cycle_no > 1) =>
                (sleep_seconds = PollPause /\ sleep_seconds >= SecondsPerHour)

\* The calls of the running cycle that enter apply_flags or run a command.
MutationCalls == {k \in 1..Len(calls) : calls[k].op \in {"apply_flags", "mkvpropedit"}}

\* C26: a file reported modified in the cycle before is, in the running
\* cycle, found compliant or given a no-op selection: apply_flags is not
\* entered and no command is run for it again.
C26_ConvergesAfterOneCycle ==
    \A k \in MutationCalls :
       Get(episodes[calls[k].file].path) \notin modified_before

\* ===================================================================
\* Properties of is_seeded, checked under SpecSeeded.
\* ===================================================================
\* What follows the last slash of a path, and the test for a string suffix.
FinalSegment(s) ==
    LET at == {i \in 1..Len(s) : s[i] = "/"}
    IN  IF at = {} THEN s
        ELSE SubSeq(s, (CHOOSE i \in at : \A j \in at : j <= i) + 1, Len(s))
IsStringSuffix(suffix, s) == \E k \in 0..Len(s) : SubSeq(s, k + 1, Len(s)) = suffix
\* The catalog path of a call, normalized and rewritten as configured.
Rewritten(path) == MappedPath(normalize_path(path), environ)
ExactMatch(c) == Rewritten(c.path) \in c.paths
SuffixMatch(c) ==
    \E p \in c.paths : IsStringSuffix(FinalSegment(Rewritten(c.path)), p)
NameSizeMatch(c) ==
    /\ c.size # None
    /\ <<Lower(FinalSegment(Rewritten(c.path))), Get(c.size)>> \in c.name_sizes

\* C12: is_seeded returns true iff (1) the normalized and rewritten path is in
\* the path set, or (2) its final segment is a string suffix of some path of
\* the path set, or (3) the size is present and (lowercased final segment,
\* size) is in the name/size set; with an empty path set the result is (3),
\* and with the size absent the result is the same for every name/size set.
C12_SeededIff ==
    \A k \in 1..Len(calls) :
        LET c == calls[k]
        IN  /\ c.res <=> (ExactMatch(c) \/ SuffixMatch(c) \/ NameSizeMatch(c))
            /\ c.paths = {} => (c.res <=> NameSizeMatch(c))
            /\ c.size = None =>
                  \A other \in SUBSET NameSizePool :
                      is_seeded(c.path, c.paths, other, c.size, environ) = c.res

\* C12 witness: two calls on one index with a non-empty path set; the first
\* matched by (lowercased name, size) alone, for an upper-case catalog name,
\* and the second, for the same path without a size, matched nothing.
C12_Witness ==
    /\ Len(calls) = 2
    /\ calls[2].size = None
    /\ calls[1].paths # {}
    /\ calls[1].res = TRUE
    /\ ~ExactMatch(calls[1]) /\ ~SuffixMatch(calls[1]) /\ NameSizeMatch(calls[1])
    /\ Tail_(calls[1].path) # Lower(Tail_(calls[1].path))
    /\ calls[2].path = calls[1].path
    /\ calls[2].res = FALSE

\* C13: when the catalog path normalizes to exactly a path of the path set,
\* is_seeded returns true, whatever the size, the name/size set and the
\* configured PATH_MAP_FROM / PATH_MAP_TO rewrite are.
C13_ExactMatchAnyRewrite ==
    \A k \in 1..Len(calls) :
        normalize_path(calls[k].path) \in calls[k].paths => calls[k].res = TRUE

\* C13, amended: when the catalog path normalizes to exactly a path of the
\* path set, is_seeded returns true whatever the size and the name/size set
\* are, under every configured rewrite that leaves the final segment of the
\* normalized path as it is (one that does not apply to the path, or one that
\* replaces a directory prefix only).
C13_ExactMatchSegmentKept ==
    \A k \in 1..Len(calls) :
        LET c == calls[k]
        IN  (/\ normalize_path(c.path) \in c.paths
             /\ FinalSegment(Rewritten(c.path)) = FinalSegment(normalize_path(c.path)))
                => c.res = TRUE

\* C13 witness: a catalog path with a repeated and a trailing slash whose
\* normalized form is in the path set, a configured rewrite that moves it to
\* a directory not in the set, no size, an empty name/size set: true.
C13_Witness ==
    \E k \in 1..Len(calls) :
        LET c == calls[k]
        IN  /\ c.path # normalize_path(c.path)
            /\ normalize_path(c.path) \in c.paths
            /\ Rewritten(c.path) # normalize_path(c.path)
            /\ Rewritten(c.path) \notin c.paths
            /\ c.size = None
            /\ c.name_sizes = {}
            /\ c.res = TRUE

SeedingBasenames(c) ==
    {Lower(FinalSegment(p)) : p \in c.paths} \union {ns[1] : ns \in c.name_sizes}

\* C30: is_seeded returns true only when a seeding file of the index has
\* the basename of the catalog file, compared without regard to case: a
\* path with that final segment or a name/size entry with that name.
C30_SameBasenameOnly ==
    \A k \in 1..Len(calls) :
       calls[k].res =>
          Lower(FinalSegment(Rewritten(calls[k].path))) \in SeedingBasenames(calls[k])

\* ===================================================================
\* Properties of _lang_code, checked under SpecLang.
\* ===================================================================
\* A string without its leading whitespace, reversed, and trimmed at both ends.
RECURSIVE DropLeading(_)
DropLeading(s) ==
    IF s # <<>> /\ Head(s) \in Whitespace THEN DropLeading(Tail(s)) ELSE s
Reverse(s) == [i \in 1..Len(s) |-> s[Len(s) + 1 - i]]
Trimmed(s) == Reverse(DropLeading(Reverse(DropLeading(s))))
JapaneseTags == { <<"j","a">>, <<"j","p","n">>, <<"j","a","p","a","n","e","s","e">> }
EnglishTags == { <<"e","n">>, <<"e","n","g">>, <<"e","n","g","l","i","s","h">> }

\* C19: _lang_code returns a value for every input: absent for an absent or
\* empty input; otherwise, with the input trimmed and lowercased, jpn for
\* ja, jpn and japanese, eng for en, eng and english, and the trimmed
\* lowercased string itself for every other input.
C19_LangCodeTotal ==
    \A k \in 1..Len(calls) :
        LET c == calls[k]
        IN  IF c.val = None \/ c.val = Some(<<>>) THEN c.res = None
            ELSE LET t == Lower(Trimmed(Get(c.val)))
                 IN  c.res = Some(IF t \in JapaneseTags THEN JPN
                                  ELSE IF t \in EnglishTags THEN ENG
                                  ELSE t)

\* C19 witness: a tag with whitespace around it and an upper-case letter,
\* not among the known tags as written, was normalised to jpn.
C19_Witness ==
    \E k \in 1..Len(calls) :
        LET c == calls[k]
        IN  /\ c.val # None
            /\ Get(c.val) \notin JapaneseTags
            /\ Trimmed(Get(c.val)) # Get(c.val)
            /\ Lower(Get(c.val)) # Get(c.val)
            /\ c.res = Some(JPN)

\* C20: _lang_code gives back unchanged every value it returns, the absent
\* one aside: for each result x of a call that is not absent,
\* _lang_code(x) = x.
C20_LangCodeIdempotent ==
    \A k \in 1..Len(calls) :
        calls[k].res # None => _lang_code(calls[k].res) = calls[k].res


\* The commands that ran with success on the file at a path in this cycle.
CommandsRunOn(path) ==
    {j \in 1..Len(calls) :
        /\ calls[j].op = "mkvpropedit"
        /\ calls[j].res
        /\ Get(episodes[calls[j].file].path) = path}

\* C27: a file whose report of the cycle has was_modified false has had no
\* mutation command run against it in the cycle, also when a command of
\* apply_flags failed.
C27_UnmodifiedUntouched ==
    \A k \in 1..Len(file_reports) :
       ~file_reports[k].was_modified =>
          CommandsRunOn(file_reports[k].file_path) = {}

\* C28: in a dry run no mutation command is executed, whatever the file and
\* the selection, and no step of the cycle changes a container on disk.
C28_DryRunTouchesNothing ==
    /\ [](environ.DRY_RUN =>
             \A k \in 1..Len(calls) : calls[k].op # "mkvpropedit")
    /\ [][environ.DRY_RUN => disk' = disk]_vars

\* C28 witness: a dry run is over in which apply_flags was entered for the
\* first file with a command list that would have changed its flags.
C28_Witness ==
    /\ environ.DRY_RUN
    /\ pc = "done"
    /\ \E k \in 1..Len(calls) : calls[k].op = "apply_flags" /\ calls[k].file = 1
    /\ \E k \in 1..Len(file_reports) :
          /\ file_reports[k].file_path = FilePath(1)
          /\ file_reports[k].was_modified
          /\ file_reports[k].selected_audio_track # None
          /\ \E i \in 1..Len(disk[FilePath(1)]) :
                /\ disk[FilePath(1)][i].id = Get(file_reports[k].selected_audio_track)
                /\ ~disk[FilePath(1)][i].properties.default_track

\* ===================================================================
\* Properties of build_seeded_path_index in the cycle, checked under Spec.
\* ===================================================================
\* No transfer client was made, or its call fails in this cycle.
NoClientOrFailure ==
    \/ ~(environ.EXCLUDE_SEEDING /\ environ.TRANSMISSION_RPC_URL)
    \/ transmission.fails
SeededReports == {k \in 1..Len(file_reports) : file_reports[k].is_seeded}

\* C24: build_seeded_path_index returns in every case (the cycle goes on to
\* the catalog); without a transfer client, or when its call fails, the two
\* sets are empty, is_seeded is false for every catalog file, every is_seeded
\* call of the cycle returned false and no file is skipped as seeding.
C24_EmptyIndexWithoutClient ==
    pc # "start" =>
       /\ calls # <<>>
       /\ calls[1].op = "build_seeded_path_index"
       /\ calls[1].res = seeded
       /\ NoClientOrFailure =>
             /\ seeded = <<{}, {}>>
             /\ \A i \in 1..Len(episodes) :
                   ~NotAnMkvFile(episodes[i]) =>
                      ~is_seeded(Get(episodes[i].path), seeded[1], seeded[2],
                                 episodes[i].size, environ)
             /\ \A k \in 1..Len(calls) :
                   calls[k].op = "is_seeded" => ~calls[k].res
             /\ SeededReports = {}
             /\ counters.files_skipped_seed = 0

\* C24 witness: the transfer client was configured and its call failed while
\* the server seeds the first file; the cycle is over, the first file was
\* checked against the index and has a report that is not a seeding skip.
C24_Witness ==
    /\ pc = "done"
    /\ environ.EXCLUDE_SEEDING /\ environ.TRANSMISSION_RPC_URL
    /\ transmission.fails
    /\ FilePath(1) \in transmission.paths
    /\ \E k \in 1..Len(calls) : calls[k].op = "is_seeded" /\ calls[k].file = 1
    /\ \E k \in 1..Len(file_reports) :
          file_reports[k].file_path = FilePath(1) /\ ~file_reports[k].is_seeded

\* ===================================================================
\* Properties of the counters and reports of the cycle, checked under Spec.
\* ===================================================================
\* The records the loop has passed that were counted as considered: those
\* with a .mkv file, in a series whose episodes could be fetched.
Considered ==
    {f \in Passed : ~NotAnMkvFile(episodes[f]) /\ FailedFetches(f) = {}}
ReportsFor(f) ==
    IF episodes[f].path = None THEN {}
    ELSE {r \in 1..Len(file_reports) :
             file_reports[r].file_path = Get(episodes[f].path)}
\* The outcomes a report states, among the four that exclude each other.
OutcomesOf(r) ==
    {o \in {"is_seeded", "was_modified", "was_compliant", "error_message"} :
        \/ o = "is_seeded" /\ r.is_seeded
        \/ o = "was_modified" /\ r.was_modified
        \/ o = "was_compliant" /\ r.was_compliant
        \/ o = "error_message" /\ r.error_message # None}

\* C29: between two files and at the end of the cycle there are as many
\* reports as files considered, one for each considered record and none for
\* any other; a report states at most one of is_seeded, was_modified,
\* was_compliant and an error_message; files_modified, files_skipped_seed
\* and errors are the numbers of reports with was_modified, is_seeded and an
\* error_message.
C29_ReportAccounting ==
    /\ counters.files_modified = Cardinality(ModifiedReports)
    /\ counters.files_skipped_seed = Cardinality(SeededReports)
    /\ counters.errors = Cardinality(ErrorReports)
    /\ \A r \in 1..Len(file_reports) : Cardinality(OutcomesOf(file_reports[r])) <= 1
    /\ pc \in {"file", "done"} =>
          /\ Len(file_reports) = counters.files_considered
          /\ counters.files_considered = Cardinality(Considered)
          /\ \A f \in 1..Len(episodes) :
                Cardinality(ReportsFor(f)) = IF f \in Considered THEN 1 ELSE 0

\* C29 witness: the cycle is over with two files considered, one skipped as
\* seeding and one whose command failed, and a report for each.
C29_Witness ==
    /\ pc = "done"
    /\ counters.files_considered = 2
    /\ Len(file_reports) = 2
    /\ counters.files_skipped_seed = 1
    /\ counters.errors = 1
    /\ \E k \in 1..Len(calls) : calls[k].op = "mkvpropedit" /\ ~calls[k].res

\* ===================================================================
\* Properties of TransmissionClient._rpc, checked under SpecRpc.
\* ===================================================================
\* The requests of the n-th call, by position in the exchange.
RequestsOf(n) == {k \in 1..Len(rpc.sent) : rpc.sent[k].call = n}
Greatest(S) == CHOOSE i \in S : \A j \in S : j <= i
IsFirstRequest(k) == k = Least(RequestsOf(rpc.sent[k].call))
\* Answers that make the client store a session id: a 409 with the header,
\* read as the answer to the first request of a call.
Storing(k) ==
    /\ IsFirstRequest(k)
    /\ rpc.got[k].status = Some(HttpConflict)
    /\ TruthyStr(rpc.got[k].session)
\* The session id the client holds just before its k-th request.
StoredBefore(k) ==
    LET S == {j \in 1..(k - 1) : Storing(j)}
    IN IF S = {} THEN None ELSE rpc.got[Greatest(S)].session
\* An answer after which _rpc cannot return arguments.
Refused(resp) ==
    IF resp.status = None THEN TRUE
    ELSE \/ Get(resp.status) >= 400
         \/ resp.result # Some("success")

\* C22: a call of _rpc sends one or two requests; a second one only after a
\* first answer of 409 that carries a session id, which the retry sends, the
\* client stores and every later request sends; a 409 without the id, a
\* second 409, another error status or a result other than "success" makes
\* the call raise, and only a good final answer returns arguments.
C22_RpcProtocol ==
    /\ Len(rpc.got) = Len(rpc.sent)
    /\ rpc._session_id = StoredBefore(Len(rpc.sent) + 1)
    /\ \A k \in 1..Len(rpc.sent) :
          rpc.sent[k].session =
             IF IsFirstRequest(k) THEN StoredBefore(k) ELSE rpc.got[k - 1].session
    /\ \A n \in 1..Len(rpc.outcomes) :
          LET R == RequestsOf(n)
              first == Least(R)
              last == Greatest(R)
          IN /\ Cardinality(R) \in {1, 2}
             /\ Cardinality(R) = 2 => Storing(first)
             /\ (rpc.got[first].status = Some(HttpConflict)
                   /\ ~TruthyStr(rpc.got[first].session)) =>
                   (Cardinality(R) = 1 /\ rpc.outcomes[n] = "raised")
             /\ Refused(rpc.got[last]) => rpc.outcomes[n] = "raised"
             /\ rpc.outcomes[n] = "arguments" =>
                   (rpc.got[last].status = Some(HttpOk)
                      /\ rpc.got[last].result = Some("success"))

\* C22 witness: the first call was answered 409 with a session id and then
\* returned arguments on the retry; the second call sent that id, was
\* answered 409 with another id and raised on a second 409.
C22_Witness ==
    /\ Len(rpc.outcomes) = 2
    /\ rpc.outcomes = <<"arguments", "raised">>
    /\ Len(rpc.sent) = 4
    /\ rpc.got[1].session = Some(<<"s","1">>)
    /\ rpc.sent[3].session = Some(<<"s","1">>)
    /\ rpc.got[3].session = Some(<<"s","2">>)
    /\ rpc.sent[4].session = Some(<<"s","2">>)
    /\ rpc.got[4].status = Some(HttpConflict)


\* ===================================================================
\* Properties of get_seeding_file_index, checked under SpecIndex.
\* ===================================================================
\* The files of the torrents given, as <<torrent position, file position>>.
TorrentFiles ==
    UNION {{<<i, j>> : j \in 1..Len(transmission.torrents[i].files)} :
              i \in 1..Len(transmission.torrents)}
InSeedingTorrent(tf) ==
    transmission.torrents[tf[1]].status \in {Some(5), Some(6)}
PathOf(tf) ==
    LET t == transmission.torrents[tf[1]]
    IN PathJoin(OrEmpty(t.downloadDir), OrEmpty(t.files[tf[2]].name))
NameSizeOf(tf) ==
    LET f == transmission.torrents[tf[1]].files[tf[2]]
    IN <<Lower(FinalSegment(OrEmpty(f.name))), OrZero(f.length)>>

\* C23: the index holds exactly what the files of the torrents in status 5
\* or 6 contribute: each such file its normalized joined path and its
\* (lowercased basename, length) pair, and no file of another torrent adds
\* a path or a pair.
C23_IndexOfSeedingTorrents ==
    pc = "indexed" =>
       /\ seeded[1] = {PathOf(tf) : tf \in {x \in TorrentFiles : InSeedingTorrent(x)}}
       /\ seeded[2] = {NameSizeOf(tf) : tf \in {x \in TorrentFiles : InSeedingTorrent(x)}}

\* C23 witness: a torrent that is downloading and a torrent that waits to
\* seed were indexed; only the files of the second are in the index.
C23_Witness ==
    /\ pc = "indexed"
    /\ Len(transmission.torrents) = 2
    /\ transmission.torrents[1].status = Some(StatusDownload)
    /\ transmission.torrents[1].files # <<>>
    /\ transmission.torrents[2].status = Some(StatusSeedWait)
    /\ Len(transmission.torrents[2].files) = 2
    /\ PathOf(<<1, 1>>) \notin seeded[1]
    /\ NameSizeOf(<<1, 1>>) \notin seeded[2]
    /\ Cardinality(seeded[1]) = 2
    /\ Cardinality(seeded[2]) = 2

====
